---- MODULE Spec2Model ----
(***************************************************************************)
(* Juportal crawler: the concurrent, resumable crawl pipeline of index.js  *)
(* and src/processor.js (Semaphore, SerialQueue, commitSitemapResult), and *)
(* the merge of src/data.js into the keyed data store.                     *)
(*                                                                         *)
(* JavaScript runs one job at a time.  A job is either a macrotask (the    *)
(* arrival of a network result) or a microtask (a promise reaction).  The  *)
(* microtask queue mq is FIFO and is drained completely before the next    *)
(* macrotask runs, so a macrotask action is guarded by mq = << >>.         *)
(***************************************************************************)
EXTENDS Integers, Sequences, FiniteSets, TLC

\* ---------------------------------------------------------------- bounds
MaxItems == 6          \* sitemaps listed by the first sitemap index
MaxRuns == 2           \* invocations of `node index.js`

\* ------------------------------------------------------ program constants
SITEMAP_CONCURRENCY == 5

\* ------------------------------------------------------------ the website
\* robots.txt lists two sitemap indexes (batches), most recent first; each
\* index lists its own sitemaps (items), in document order: MaxItems for the
\* first, none for the second (fetchSitemapUrls returns [], sitemap.js:72).
sitemapIndexUrls == <<1, 2>>
Batches == {sitemapIndexUrls[p] : p \in 1..Len(sitemapIndexUrls)}
BatchSize(b) == IF b = 1 THEN MaxItems ELSE 0
sitemapUrlsOf(b) == [n \in 1..BatchSize(b) |-> 100 * b + n]
ItemsOf(b) == {sitemapUrlsOf(b)[n] : n \in 1..BatchSize(b)}
Items == UNION {ItemsOf(b) : b \in Batches}
BatchOf(i) == i \div 100

\* What each sitemap of the website holds: the type fetchSitemapResult
\* returns for it when the transport does not fail.
contentOf(i) ==
  CASE i % 4 = 1 -> "save"
    [] i % 4 = 2 -> "skip"
    [] i % 4 = 3 -> "empty"
    [] OTHER -> "no-bases"

\* The results a fetch of sitemap i can produce.
resultsOf(i) == {"error", contentOf(i)}

Range(s) == {s[n] : n \in 1..Len(s)}

VARIABLES
  disk,                \* settings.json
  settings,            \* the settings object of the running process
  run,                 \* number of runs started so far
  mainPc,              \* where main() is suspended
  pos,                 \* position of the for-of loop in sitemapIndexUrls
  counters,            \* skippedCourt, savedJudgements, errorCount
  indexFullyProcessed,
  sem,                 \* the Semaphore of the current index
  serialQ,             \* the SerialQueue of the current index
  taskPc,              \* per sitemap: where its async task is suspended
  result,              \* per sitemap: the fetched result awaiting commit
  mq,                  \* microtask queue
  \* history of the current run, read by the properties only
  startIndexes,        \* processedSitemapIndexes when the run loaded them
  listed,              \* indexes whose listing was requested
  scanSkipped,         \* sitemaps found in processedSitemaps by the scan
  started,             \* sitemaps whose fetchSitemapResult was called
  committedOk,         \* sitemaps whose commit returned true
  committedFail,       \* sitemaps whose commit returned false
  errored,             \* sitemaps whose fetch failed transport
  batchEnd,            \* per index: how its processing ended
  before,              \* state when the listing of the last scanned index arrived
  after                \* state when the processing of the last ended index ended

crawlVars == <<disk, settings, run, mainPc, pos, counters, indexFullyProcessed,
               sem, serialQ, taskPc, result, mq, startIndexes, listed,
               scanSkipped, started, committedOk, committedFail, errored,
               batchEnd, before, after>>

\* The SerialQueue on its own, driven by arbitrary clients.
VARIABLES
  qSerial,             \* the SerialQueue
  qMq,                 \* microtask queue
  qTask,               \* per task: "new", "enqueued", "running", "done",
                       \*   "failed" (it threw or rejected), "skipped"
  qResult,             \* per task: state of the promise enqueue returned
  qErr,                \* per task: the error that promise rejected with
  qEnqueued,           \* tasks in the order of their enqueue calls
  qWaited              \* tasks enqueued while the tail was pending

queueVars == <<qSerial, qMq, qTask, qResult, qErr, qEnqueued, qWaited>>

\* The keyed data store on its own, driven by arbitrary merges.
VARIABLES
  files,               \* data/<file>.json: file -> article -> ECLI -> record
  merged               \* per file, article, ECLI, language and string: how
                       \*   often the string was merged (0, 1, 2 for more)

mergeVars == <<files, merged>>

\* parseSitemapXml on its own: the loop over the reference entries of one
\* sitemap document, one entry per step.
VARIABLES
  refs,                \* the reference entries read so far
  xmlPc,               \* "loop", or "done" after the return
  currentArticles,     \* articles pending an identifier
  currentLawKey,       \* law key of the pending group, NoKey for null
  lawKeyEliCache,      \* law key -> last identifier bound to it
  legalBases,          \* bases that received an identifier
  legalBasesWithoutEli,\* bases flushed without one
  uniqueBases,         \* the returned legalBases
  errorsJson           \* errors.json: the texts recorded for the sitemap

xmlVars == <<refs, xmlPc, currentArticles, currentLawKey, lawKeyEliCache,
             legalBases, legalBasesWithoutEli, uniqueBases, errorsJson>>

\* The fetch phase and the commit of one judgement, then the replay of
\* missing_eli.json.
VARIABLES
  fetchPc,             \* "start", "page" (the judgement page is awaited),
                       \*   "result", "committed"
  judgement,           \* what parseSitemapXml returned
  judgementPage,       \* the outcome of the download of the judgement page
  resultType,          \* type of the result of fetchSitemapResult
  payload,             \* its abstractToBasesMap
  missingEliJson,      \* missing_eli.json: law key -> identifier, elements
  dataJson             \* the bases written to the data files

fetchVars == <<fetchPc, judgement, judgementPage, resultType, payload,
               missingEliJson, dataJson>>

\* fetch.js fetchWithRetry, one call
VARIABLES
  retryPc,             \* "idle", "fetch" (an attempt is awaited), "sleep",
                       \*   "returned", "thrown"
  retries,             \* the argument of the call
  attempt,             \* the loop variable
  attempts,            \* the outcomes of the attempts made, in order
  waits,               \* the delays waited: after which attempt, how long
  settled              \* the body returned or the error thrown

retryVars == <<retryPc, retries, attempt, attempts, waits, settled>>

\* utils.js normalizeEliToFrench and normalizeCgiUrl, applied repeatedly
VARIABLES
  normX,               \* the identifier given
  normFn,              \* the function applied: "none", "eli", "cgi"
  normOut              \* what the successive applications returned

normVars == <<normX, normFn, normOut>>

\* parsing article numbers (utils.js)
VARIABLES
  artLine,             \* the citation line read
  artPc,               \* "idle", "normalized", "parsed"
  artOut               \* the articles returned

artVars == <<artLine, artPc, artOut>>

\* a targeted run or a --fix-errors run (index.js)
VARIABLES
  tgtPc,               \* "idle", "listing", "loop", "done", "fatal"
  tgtMode,             \* kind "url", "index" or "fix", and the target
  tgtUrls,             \* the sitemaps to process
  tgtPos,              \* position of the loop in tgtUrls
  tgtSettings,         \* the settings object of the run
  tgtDisk,             \* settings.json
  tgtStart,            \* settings.json when the run started
  tgtCounters,
  tgtErrors,           \* the keys of errors.json
  tgtOriginal          \* originalErrors: the keys the run started with

tgtVars == <<tgtPc, tgtMode, tgtUrls, tgtPos, tgtSettings, tgtDisk, tgtStart,
             tgtCounters, tgtErrors, tgtOriginal>>

\* the commits of one batch and its promotion, statement by statement
VARIABLES
  cmPc,                \* the statement reached
  cmTodo,              \* sitemaps whose commit task has not run yet
  cmItem,              \* the sitemap being committed
  cmResult,            \* the type of its fetched result
  cmLeft,              \* records storeJudgementData has yet to write
  cmSettings,          \* the settings object
  cmDisk,              \* settings.json
  cmFiles,             \* the records in the data files
  cmOk,                \* what the last commit returned
  cmAllOk,             \* indexFullyProcessed
  cmCounters

cmVars == <<cmPc, cmTodo, cmItem, cmResult, cmLeft, cmSettings, cmDisk, cmFiles,
            cmOk, cmAllOk, cmCounters>>

\* the Semaphore on its own, driven by arbitrary clients
VARIABLES
  gSem,                \* the Semaphore
  gPc,                 \* per client: "idle", "waiting", "woken", "returned"
                       \*   (acquire returned), "holding"
  gMq                  \* microtask queue

semVars == <<gSem, gPc, gMq>>

\* the commits of the judgements of a run, on the data store and on the
\* reconciliation store
VARIABLES
  csFiles,             \* data/<file>.json: file -> article -> ECLI -> record
  csMissing,           \* missing_eli.json: law key -> identifier, elements
  csSettings,          \* the settings object
  csDisk,              \* settings.json
  csCounters,
  csPlan,              \* the data files before the run and, per sitemap,
                       \*   the abstractToBasesMap of its result
  csTried,             \* sitemaps committed in the current run
  csWritten,           \* sitemaps whose records were all written once
  csLast               \* the last commit: its number, sitemap, how it
                       \*   ended, records written, whether it was a repeat

csVars == <<csFiles, csMissing, csSettings, csDisk, csCounters, csPlan, csTried,
            csWritten, csLast>>

vars ==
  <<crawlVars, queueVars, mergeVars, xmlVars, fetchVars, retryVars, normVars,
    artVars, tgtVars, cmVars, semVars, csVars>>

\* What the actions of one part leave alone.
restOfCrawl == <<queueVars, mergeVars, xmlVars, fetchVars, retryVars, normVars, artVars,
  tgtVars, cmVars, semVars, csVars>>
restOfQueue == <<crawlVars, mergeVars, xmlVars, fetchVars, retryVars, normVars, artVars,
  tgtVars, cmVars, semVars, csVars>>
restOfMerge == <<crawlVars, queueVars, xmlVars, fetchVars, retryVars, normVars, artVars,
  tgtVars, cmVars, semVars, csVars>>
restOfXml == <<crawlVars, queueVars, mergeVars, fetchVars, retryVars, normVars, artVars,
  tgtVars, cmVars, semVars, csVars>>
restOfFetch == <<crawlVars, queueVars, mergeVars, xmlVars, retryVars, normVars, artVars,
  tgtVars, cmVars, semVars, csVars>>
restOfRetry == <<crawlVars, queueVars, mergeVars, xmlVars, fetchVars, normVars, artVars,
  tgtVars, cmVars, semVars, csVars>>
restOfNorm == <<crawlVars, queueVars, mergeVars, xmlVars, fetchVars, retryVars, artVars,
  tgtVars, cmVars, semVars, csVars>>
restOfArt == <<crawlVars, queueVars, mergeVars, xmlVars, fetchVars, retryVars, normVars,
  tgtVars, cmVars, semVars, csVars>>
restOfTgt == <<crawlVars, queueVars, mergeVars, xmlVars, fetchVars, retryVars, normVars,
  artVars, cmVars, semVars, csVars>>
restOfCm == <<crawlVars, queueVars, mergeVars, xmlVars, fetchVars, retryVars, normVars,
  artVars, tgtVars, semVars, csVars>>
restOfSem == <<crawlVars, queueVars, mergeVars, xmlVars, fetchVars, retryVars, normVars,
  artVars, tgtVars, cmVars, csVars>>
restOfCs == <<crawlVars, queueVars, mergeVars, xmlVars, fetchVars, retryVars, normVars, artVars,
  tgtVars, cmVars, semVars>>

\* ------------------------------------------------------------- storage.js
emptySettings == [processedSitemapIndexes |-> {}, processedSitemaps |-> {}]

\* loadSettings(): the parsed file (the file holds what saveSettings wrote).
loadSettings(d) == d

\* saveSettings(settings): whole-object overwrite of settings.json.
saveSettings(s) == s

\* ------------------------------------------------------------- Semaphore
NewSemaphoreOffByOne(max) == [max |-> max + 1, count |-> 0, queue |-> << >>]
NewSemaphore(max) == [max |-> max, count |-> 0, queue |-> << >>]

\* acquire(), synchronous part: TRUE when the caller takes a slot at once.
acquireFastLax(s) == s.count <= s.max
acquireFast(s) == s.count < s.max

\* acquire() up to its first suspension point, called by the task of i.
acquire(s, i) ==
  IF acquireFast(s)
    THEN [s EXCEPT !.count = @ + 1]
    ELSE [s EXCEPT !.queue = Append(@, i)]

\* acquire() after the promise it waited on was resolved by release().
acquireResume(s) == [s EXCEPT !.count = @ + 1]

\* release(): the slot is given up, the first waiter (if any) is resolved.
release(s) ==
  [s EXCEPT !.count = @ - 1,
            !.queue = IF Len(@) > 0 THEN Tail(@) ELSE @]
releaseWakes(s) == IF Len(s.queue) > 0 THEN <<s.queue[1]>> ELSE << >>

\* ------------------------------------------------------------ SerialQueue
\* _tail is a promise: "fulfilled", "rejected" (with error err) or
\* "pending".  waiting holds the tasks whose reaction is registered on a
\* still pending tail, oldest first (each waits on the tail created by the
\* enqueue before it).
NewSerialQueue == [tail |-> "fulfilled", err |-> 0, waiting |-> << >>]

\* promise.then(...): on a settled promise the reaction is queued at once,
\* on a pending one it is registered.  The three decisions of enqueue(fn):
\*   "chain": this._tail.then(...);
\*   "fn":    the reaction of result to a settled tail, () => fn() for both
\*            the fulfilled and the rejected tail;
\*   "tail":  the state the new tail takes when result settles, always
\*            fulfilled as both handlers are () => {}.
thenUnchained(st) == "now"
then(st) == IF st = "pending" THEN "wait" ELSE "now"

enqueueNaive(what, st) ==
  CASE what = "chain" -> then(st)
    [] what = "fn" -> IF st = "rejected" THEN "skip" ELSE "run"
    [] what = "tail" -> st
enqueue(what, st) ==
  CASE what = "chain" -> then(st)
    [] what = "fn" -> "run"
    [] what = "tail" -> "fulfilled"

\* ------------------------------------------------- commitSitemapResult
\* The commit of one fetched result.  storeOk tells whether the writes of
\* storeJudgementData succeed.  Returns the value of the function (ok), the
\* settings object, the counters and the settings file after the call.
markDone(s, sitemapUrl, markProcessed) ==
  IF markProcessed
    THEN [s EXCEPT !.processedSitemaps = @ \cup {sitemapUrl}]
    ELSE s

\* processor.js:197-200: a transport error is counted, nothing is marked.
commitErrorUncounted(sitemapUrl, s, c, d) ==
  [ok |-> FALSE, settings |-> s, disk |-> d, counters |-> c]
commitError(sitemapUrl, s, c, d) ==
  [ok |-> FALSE, settings |-> s, disk |-> d,
   counters |-> [c EXCEPT !.errorCount = @ + 1]]

commitSitemapResultMarked(res, sitemapUrl, s, c, d, markProcessed, storeOk) ==
  LET done == markDone(s, sitemapUrl, markProcessed)
  IN [ok |-> storeOk, settings |-> done, disk |-> saveSettings(done),
      counters |-> IF storeOk THEN [c EXCEPT !.savedJudgements = @ + 1]
                   ELSE [c EXCEPT !.errorCount = @ + 1]]
commitSitemapResult(res, sitemapUrl, s, c, d, markProcessed, storeOk) ==
  LET done == markDone(s, sitemapUrl, markProcessed)
      file == IF markProcessed THEN saveSettings(done) ELSE d
  IN IF res = "error"
       THEN commitError(sitemapUrl, s, c, d)
     ELSE IF res \in {"empty", "no-bases"}
       THEN [ok |-> TRUE, settings |-> done, disk |-> file, counters |-> c]
     ELSE IF res = "skip"
       THEN [ok |-> TRUE, settings |-> done, disk |-> file,
             counters |-> [c EXCEPT !.skippedCourt = @ + 1]]
     ELSE IF storeOk
       THEN [ok |-> TRUE, settings |-> done, disk |-> file,
             counters |-> [c EXCEPT !.savedJudgements = @ + 1]]
     ELSE [ok |-> FALSE, settings |-> s, disk |-> d,
           counters |-> [c EXCEPT !.errorCount = @ + 1]]

\* ------------------------------------------------------- main(), helpers
\* index.js:183: the index is skipped when it is already processed.
indexAlreadyProcessed(s, b) == b \in s.processedSitemapIndexes

\* index.js:218: the sitemap is skipped when it is already processed.
sitemapAlreadyProcessedNever(s, i) == FALSE
sitemapAlreadyProcessed(s, i) == i \in s.processedSitemaps

\* index.js:244: if (!ok) indexFullyProcessed = false.
noteCommitLastWins(fully, ok) == ok
noteCommit(fully, ok) == fully /\ ok

\* index.js:257-265: promotion of the index and pruning of its sitemaps.
promoteNoPrune(s, b) ==
  [s EXCEPT !.processedSitemapIndexes = @ \cup {b}]
promote(s, b) ==
  [processedSitemapIndexes |-> s.processedSitemapIndexes \cup {b},
   processedSitemaps |-> s.processedSitemaps \ Range(sitemapUrlsOf(b))]

\* The for-of loop from position p: the first index that is not skipped,
\* or Len + 1 when the loop ends.
RECURSIVE nextIndex(_, _)
nextIndex(p, s) ==
  IF p > Len(sitemapIndexUrls) THEN p
  ELSE IF indexAlreadyProcessed(s, sitemapIndexUrls[p]) THEN nextIndex(p + 1, s)
  ELSE p

\* The sitemaps of index b that the scan of index.js:213-221 turns into
\* tasks, in listing order.
toFetchAll(s, b) == sitemapUrlsOf(b)
toFetch(s, b) ==
  SelectSeq(sitemapUrlsOf(b), LAMBDA i : ~sitemapAlreadyProcessed(s, i))

\* The scan calls sem.acquire() for every task before any task resumes.
RECURSIVE spawn(_, _)
spawn(s, todo) ==
  IF todo = << >> THEN s ELSE spawn(acquire(s, Head(todo)), Tail(todo))

\* A microtask: kind k, the task i it belongs to, and for a reaction the
\* state t of the promise it reacts to, with the error e it rejected with
\* (0: none).
Job(k, i, t, e) == [k |-> k, i |-> i, t |-> t, e |-> e]

NoSnap == [index |-> 0, settings |-> emptySettings, disk |-> emptySettings,
           errorCount |-> 0]
Snap(b, s, d, c) ==
  [index |-> b, settings |-> s, disk |-> d, errorCount |-> c.errorCount]

zeroCounters == [skippedCourt |-> 0, savedJudgements |-> 0, errorCount |-> 0]
noTasks == [i \in Items |-> "none"]
noResults == [i \in Items |-> "none"]
noEnds == [b \in Batches |-> "none"]

Running == mainPc \in {"robots", "listing", "awaitAll"}
CurrentIndex == sitemapIndexUrls[pos]

\* ------------------------------------------------------------------ Init
CrawlInit ==
  /\ disk = emptySettings
  /\ settings = emptySettings
  /\ run = 0
  /\ mainPc = "idle"
  /\ pos = 1
  /\ counters = zeroCounters
  /\ indexFullyProcessed = TRUE
  /\ sem = NewSemaphore(SITEMAP_CONCURRENCY)
  /\ serialQ = NewSerialQueue
  /\ taskPc = noTasks
  /\ result = noResults
  /\ mq = << >>
  /\ startIndexes = {}
  /\ listed = {}
  /\ scanSkipped = {}
  /\ started = {}
  /\ committedOk = {}
  /\ committedFail = {}
  /\ errored = {}
  /\ batchEnd = noEnds
  /\ before = NoSnap
  /\ after = NoSnap

\* ---------------------------------------------------------------- main()
\* `node index.js` is started: index.js:155-160.
StartRun ==
  /\ mainPc \in {"idle", "done", "fatal", "killed"}
  /\ run < MaxRuns
  /\ run' = run + 1
  /\ settings' = loadSettings(disk)
  /\ counters' = zeroCounters
  /\ mainPc' = "robots"
  /\ pos' = 1
  /\ indexFullyProcessed' = TRUE
  /\ sem' = NewSemaphore(SITEMAP_CONCURRENCY)
  /\ serialQ' = NewSerialQueue
  /\ taskPc' = noTasks
  /\ result' = noResults
  /\ mq' = << >>
  /\ startIndexes' = loadSettings(disk).processedSitemapIndexes
  /\ listed' = {}
  /\ scanSkipped' = {}
  /\ started' = {}
  /\ committedOk' = {}
  /\ committedFail' = {}
  /\ errored' = {}
  /\ batchEnd' = noEnds
  /\ before' = NoSnap
  /\ after' = NoSnap
  /\ UNCHANGED disk
  /\ UNCHANGED restOfCrawl

\* The for-of loop of index.js:178-200 resumed at position p with settings
\* s: skips the processed indexes and requests the listing of the next one.
continueLoop(p, s) ==
  LET q == nextIndex(p, s)
  IN /\ pos' = q
     /\ IF q > Len(sitemapIndexUrls)
          THEN mainPc' = "done" /\ listed' = listed
          ELSE mainPc' = "listing" /\ listed' = listed \cup {sitemapIndexUrls[q]}

\* fetchSitemapIndexUrls() failed: index.js:161-164, process.exit(1).
RobotsFail ==
  /\ mainPc = "robots"
  /\ mainPc' = "fatal"
  /\ UNCHANGED <<disk, settings, run, pos, counters, indexFullyProcessed, sem,
                 serialQ, taskPc, result, mq, startIndexes, listed, scanSkipped,
                 started, committedOk, committedFail, errored, batchEnd, before, after>>
  /\ UNCHANGED restOfCrawl

\* fetchSitemapIndexUrls() returned: index.js:166-194.
RobotsOk ==
  /\ mainPc = "robots"
  /\ continueLoop(1, settings)
  /\ UNCHANGED <<disk, settings, run, counters, indexFullyProcessed, sem,
                 serialQ, taskPc, result, mq, startIndexes, scanSkipped,
                 started, committedOk, committedFail, errored, batchEnd, before, after>>
  /\ UNCHANGED restOfCrawl

\* fetchSitemapUrls(index) threw: index.js:195-200.
ListingFail ==
  /\ mainPc = "listing"
  /\ mq = << >>
  /\ counters' = [counters EXCEPT !.errorCount = @ + 1]
  /\ batchEnd' = [batchEnd EXCEPT ![CurrentIndex] = "listfail"]
  /\ continueLoop(pos + 1, settings)
  /\ UNCHANGED <<disk, settings, run, indexFullyProcessed, sem, serialQ,
                 taskPc, result, mq, startIndexes, scanSkipped, started,
                 committedOk, committedFail, errored, before, after>>
  /\ UNCHANGED restOfCrawl

\* fetchSitemapUrls(index) returned: index.js:202-254.  The scan creates
\* one task per sitemap that is not yet processed; every task runs up to
\* its `await sem.acquire()` before main suspends on Promise.all.
ListingOk ==
  /\ mainPc = "listing"
  /\ mq = << >>
  /\ LET b == CurrentIndex
         todo == toFetch(settings, b)
         s == spawn(NewSemaphore(SITEMAP_CONCURRENCY), todo)
         fast == SelectSeq(todo, LAMBDA i : i \notin Range(s.queue))
     IN /\ sem' = s
        /\ taskPc' = [i \in Items |->
                        IF i \in Range(s.queue) THEN "waiting"
                        ELSE IF i \in Range(todo) THEN "acquired"
                        ELSE "none"]
        /\ mq' = [n \in 1..Len(fast) |-> Job("acquired", fast[n], "", 0)]
        /\ scanSkipped' = scanSkipped \cup (ItemsOf(b) \cap settings.processedSitemaps)
        /\ before' = Snap(b, settings, disk, counters)
  /\ serialQ' = NewSerialQueue
  /\ indexFullyProcessed' = TRUE
  /\ result' = noResults
  /\ mainPc' = "awaitAll"
  /\ UNCHANGED <<disk, settings, run, pos, counters, startIndexes, listed,
                 started, committedOk, committedFail, errored, batchEnd, after>>
  /\ UNCHANGED restOfCrawl

\* ----------------------------------------- the task of one sitemap (IIFE)
\* index.js:226-231: the task resumes after `await sem.acquire()` and calls
\* fetchSitemapResult.
StartFetch ==
  /\ mainPc = "awaitAll"
  /\ mq # << >>
  /\ Head(mq).k = "acquired"
  /\ LET i == Head(mq).i
     IN /\ taskPc' = [taskPc EXCEPT ![i] = "fetching"]
        /\ started' = started \cup {i}
  /\ mq' = Tail(mq)
  /\ UNCHANGED <<disk, settings, run, mainPc, pos, counters, indexFullyProcessed,
                 sem, serialQ, result, startIndexes, listed, scanSkipped,
                 committedOk, committedFail, errored, batchEnd, before, after>>
  /\ UNCHANGED restOfCrawl

\* processor.js:270: acquire() resumes after release() resolved its promise,
\* takes the slot and returns to the task.
AcquireResume ==
  /\ mainPc = "awaitAll"
  /\ mq # << >>
  /\ Head(mq).k = "acquireResume"
  /\ LET i == Head(mq).i
     IN /\ sem' = acquireResume(sem)
        /\ taskPc' = [taskPc EXCEPT ![i] = "acquired"]
        /\ mq' = Append(Tail(mq), Job("acquired", i, "", 0))
  /\ UNCHANGED <<disk, settings, run, mainPc, pos, counters, indexFullyProcessed,
                 serialQ, result, startIndexes, listed, scanSkipped, started,
                 committedOk, committedFail, errored, batchEnd, before, after>>
  /\ UNCHANGED restOfCrawl

\* index.js:231-247: fetchSitemapResult(i) settles with a result of type r
\* (it never rejects); the task releases its slot and enqueues the commit.
FetchDone(i, r) ==
  /\ mainPc = "awaitAll"
  /\ mq = << >>
  /\ taskPc[i] = "fetching"
  /\ LET woken == releaseWakes(sem)
         wakeJobs == [n \in 1..Len(woken) |-> Job("acquireResume", woken[n], "", 0)]
         now == enqueue("chain", serialQ.tail) = "now"
     IN /\ sem' = release(sem)
        /\ taskPc' = [j \in Items |->
                        IF j = i THEN "enqueued"
                        ELSE IF j \in Range(woken) THEN "woken"
                        ELSE taskPc[j]]
        /\ serialQ' = [tail |-> "pending", err |-> 0,
                       waiting |-> IF now THEN serialQ.waiting
                                   ELSE Append(serialQ.waiting, i)]
        /\ mq' = wakeJobs \o
                 (IF now THEN <<Job("commit", i, serialQ.tail, 0)>> ELSE << >>)
  /\ result' = [result EXCEPT ![i] = r]
  /\ errored' = IF r = "error" THEN errored \cup {i} ELSE errored
  /\ UNCHANGED <<disk, settings, run, mainPc, pos, counters, indexFullyProcessed,
                 startIndexes, listed, scanSkipped, started, committedOk,
                 committedFail, batchEnd, before, after>>
  /\ UNCHANGED restOfCrawl

\* index.js:238-247 run by the SerialQueue (processor.js:304): the reaction
\* of result to the settled tail calls fn, which commits the result.  (A
\* reaction that did not call fn would leave result rejected: the task,
\* Promise.all and main() would reject, index.js:289-293.)
Commit(storeOk) ==
  /\ mainPc = "awaitAll"
  /\ mq # << >>
  /\ Head(mq).k = "commit"
  /\ LET i == Head(mq).i
         c == commitSitemapResult(result[i], i, settings, counters, disk,
                                  TRUE, storeOk)
     IN IF enqueue("fn", Head(mq).t) = "run"
          THEN /\ settings' = c.settings
               /\ disk' = c.disk
               /\ counters' = c.counters
               /\ indexFullyProcessed' = noteCommit(indexFullyProcessed, c.ok)
               /\ committedOk' = IF c.ok THEN committedOk \cup {i} ELSE committedOk
               /\ committedFail' = IF c.ok THEN committedFail
                                   ELSE committedFail \cup {i}
               /\ result' = [result EXCEPT ![i] = "none"]
               /\ taskPc' = [taskPc EXCEPT ![i] = "committed"]
               /\ mq' = Tail(mq) \o <<Job("tail", i, "fulfilled", 0),
                                      Job("resume", i, "", 0)>>
               /\ mainPc' = mainPc
          ELSE /\ mainPc' = "fatal"
               /\ mq' = << >>
               /\ UNCHANGED <<settings, disk, counters, indexFullyProcessed,
                              committedOk, committedFail, result, taskPc>>
  /\ UNCHANGED <<run, pos, sem, serialQ, startIndexes, listed, scanSkipped,
                 started, errored, batchEnd, before, after>>
  /\ UNCHANGED restOfCrawl

\* processor.js:307: the reaction of the tail to the settled result.  The
\* tail settles, and the reaction registered on it (if any) is queued.
SettleTail ==
  /\ mainPc = "awaitAll"
  /\ mq # << >>
  /\ Head(mq).k = "tail"
  /\ LET st == enqueue("tail", Head(mq).t)
     IN IF serialQ.waiting # << >>
          THEN /\ serialQ' = [serialQ EXCEPT !.waiting = Tail(@)]
               /\ mq' = Append(Tail(mq), Job("commit", Head(serialQ.waiting), st, 0))
          ELSE /\ serialQ' = [serialQ EXCEPT !.tail = st]
               /\ mq' = Tail(mq)
  /\ UNCHANGED <<disk, settings, run, mainPc, pos, counters, indexFullyProcessed,
                 sem, taskPc, result, startIndexes, listed, scanSkipped, started,
                 committedOk, committedFail, errored, batchEnd, before, after>>
  /\ UNCHANGED restOfCrawl

\* index.js:247-248: the task resumes after `await serialQ.enqueue(...)`
\* and ends; its promise is fulfilled.
TaskEnd ==
  /\ mainPc = "awaitAll"
  /\ mq # << >>
  /\ Head(mq).k = "resume"
  /\ taskPc' = [taskPc EXCEPT ![Head(mq).i] = "finished"]
  /\ mq' = Tail(mq)
  /\ UNCHANGED <<disk, settings, run, mainPc, pos, counters, indexFullyProcessed,
                 sem, serialQ, result, startIndexes, listed, scanSkipped,
                 started, committedOk, committedFail, errored, batchEnd, before, after>>
  /\ UNCHANGED restOfCrawl

\* Fulfilled as soon as one task has ended.
promiseAny(pcs) ==
  /\ \E i \in Items : pcs[i] = "finished"
  /\ \A i \in Items : pcs[i] \in {"none", "finished", "enqueued", "fetching"}

\* index.js:254: Promise.all(sitemapPromises) is fulfilled once every task
\* has ended.
promiseAll(pcs) == \A i \in Items : pcs[i] \in {"none", "finished"}

\* index.js:254-271: Promise.all is fulfilled once every task has ended;
\* main() promotes the index or not and goes on with the loop.
BatchEnd ==
  /\ mainPc = "awaitAll"
  /\ mq = << >>
  /\ promiseAll(taskPc)
  /\ LET b == CurrentIndex
         s == IF indexFullyProcessed THEN promote(settings, b) ELSE settings
         d == IF indexFullyProcessed THEN saveSettings(s) ELSE disk
     IN /\ settings' = s
        /\ disk' = d
        /\ batchEnd' = [batchEnd EXCEPT ![b] =
                          IF indexFullyProcessed THEN "promoted" ELSE "partial"]
        /\ after' = Snap(b, s, d, counters)
        /\ continueLoop(pos + 1, s)
  /\ taskPc' = noTasks
  /\ UNCHANGED <<run, counters, indexFullyProcessed, sem, serialQ, result, mq,
                 startIndexes, scanSkipped, started, committedOk, committedFail, errored,
                 before>>
  /\ UNCHANGED restOfCrawl

\* The process is killed between two jobs.  Only settings.json survives.
Interrupt ==
  /\ Running
  /\ mainPc' = "killed"
  /\ settings' = emptySettings
  /\ counters' = zeroCounters
  /\ pos' = 1
  /\ indexFullyProcessed' = TRUE
  /\ sem' = NewSemaphore(SITEMAP_CONCURRENCY)
  /\ serialQ' = NewSerialQueue
  /\ taskPc' = noTasks
  /\ result' = noResults
  /\ mq' = << >>
  /\ startIndexes' = {}
  /\ listed' = {}
  /\ scanSkipped' = {}
  /\ started' = {}
  /\ committedOk' = {}
  /\ committedFail' = {}
  /\ errored' = {}
  /\ batchEnd' = noEnds
  /\ before' = NoSnap
  /\ after' = NoSnap
  /\ UNCHANGED <<disk, run>>
  /\ UNCHANGED restOfCrawl

\* ------------------------------------------ writes that throw in main()
\* index.js:289-293: main() rejected, the catch handler calls
\* process.exit(1).  Only settings.json survives; the listings requested
\* are kept for the properties.
processExit ==
  /\ mainPc' = "fatal"
  /\ settings' = emptySettings
  /\ counters' = zeroCounters
  /\ pos' = 1
  /\ indexFullyProcessed' = TRUE
  /\ sem' = NewSemaphore(SITEMAP_CONCURRENCY)
  /\ serialQ' = NewSerialQueue
  /\ taskPc' = noTasks
  /\ result' = noResults
  /\ mq' = << >>
  /\ startIndexes' = {}
  /\ scanSkipped' = {}
  /\ started' = {}
  /\ committedOk' = {}
  /\ committedFail' = {}
  /\ errored' = {}
  /\ batchEnd' = noEnds
  /\ before' = NoSnap
  /\ after' = NoSnap
  /\ UNCHANGED <<disk, run, listed>>

\* The writes of commitSitemapResult outside its try block: saveMissingEliFile
\* under recordMissingEliData (processor.js:215) for a result to save, and
\* saveSettings under markDone (processor.js:193) for every result but an
\* error.
throwsAt(res) ==
  (IF res = "save" THEN {"missing_eli.json"} ELSE {})
    \cup (IF res \in {"none", "error"} THEN {} ELSE {"settings.json"})

\* index.js:238-247 run by the SerialQueue when such a write throws: fn
\* throws before the counters are copied back, the promise of enqueue is
\* rejected, and the task resumes from its await with the error.
CommitThrows(file) ==
  /\ mainPc = "awaitAll"
  /\ mq # << >>
  /\ Head(mq).k = "commit"
  /\ enqueue("fn", Head(mq).t) = "run"
  /\ file \in throwsAt(result[Head(mq).i])
  /\ LET i == Head(mq).i
     IN /\ settings' = IF file = "settings.json" THEN markDone(settings, i, TRUE)
                       ELSE settings
        /\ result' = [result EXCEPT ![i] = "none"]
        /\ taskPc' = [taskPc EXCEPT ![i] = "threw"]
        /\ mq' = Tail(mq) \o <<Job("tail", i, "rejected", 1),
                               Job("taskThrows", i, "", 1)>>
  /\ UNCHANGED <<disk, run, mainPc, pos, counters, indexFullyProcessed, sem,
                 serialQ, startIndexes, listed, scanSkipped, started,
                 committedOk, committedFail, errored, batchEnd, before, after>>
  /\ UNCHANGED restOfCrawl

\* The rejection travels: the task rejects (index.js:248), Promise.all
\* rejects (index.js:254), main() resumes from its await with the error and
\* rejects, and the catch handler of index.js:289 is queued.
rejectsNext(k) ==
  CASE k = "taskThrows" -> "allRejects"
    [] k = "allRejects" -> "mainThrows"
    [] k = "mainThrows" -> "exit"
Reject ==
  /\ mainPc = "awaitAll"
  /\ mq # << >>
  /\ Head(mq).k \in {"taskThrows", "allRejects", "mainThrows"}
  /\ mq' = Append(Tail(mq), Job(rejectsNext(Head(mq).k), Head(mq).i, "", 1))
  /\ UNCHANGED <<disk, settings, run, mainPc, pos, counters, indexFullyProcessed,
                 sem, serialQ, taskPc, result, startIndexes, listed, scanSkipped,
                 started, committedOk, committedFail, errored, batchEnd, before, after>>
  /\ UNCHANGED restOfCrawl

\* index.js:289-293: the catch handler runs.
UnexpectedExit ==
  /\ mainPc = "awaitAll"
  /\ mq # << >>
  /\ Head(mq).k = "exit"
  /\ processExit
  /\ UNCHANGED restOfCrawl

\* index.js:257-265: saveSettings throws in the promotion of the index;
\* main() rejects.
PromoteThrows ==
  /\ mainPc = "awaitAll"
  /\ mq = << >>
  /\ \A i \in Items : taskPc[i] \in {"none", "finished"}
  /\ indexFullyProcessed
  /\ processExit
  /\ UNCHANGED restOfCrawl

\* ------------------------------------------- the SerialQueue on its own
MaxTasks == 3
Tasks == 1..MaxTasks

QueueInit ==
  /\ qSerial = NewSerialQueue
  /\ qMq = << >>
  /\ qTask = [k \in Tasks |-> "new"]
  /\ qResult = [k \in Tasks |-> "none"]
  /\ qErr = [k \in Tasks |-> 0]
  /\ qEnqueued = << >>
  /\ qWaited = {}

\* processor.js:303-309: a client calls enqueue(fn) for task k.
QEnqueue(k) ==
  /\ qTask[k] = "new"
  /\ LET now == enqueue("chain", qSerial.tail) = "now"
     IN /\ qSerial' = [tail |-> "pending", err |-> 0,
                       waiting |-> IF now THEN qSerial.waiting
                                   ELSE Append(qSerial.waiting, k)]
        /\ qMq' = IF now
                    THEN Append(qMq, Job("fn", k, qSerial.tail, qSerial.err))
                    ELSE qMq
        /\ qWaited' = IF now THEN qWaited ELSE qWaited \cup {k}
  /\ qTask' = [qTask EXCEPT ![k] = "enqueued"]
  /\ qResult' = [qResult EXCEPT ![k] = "pending"]
  /\ qEnqueued' = Append(qEnqueued, k)
  /\ UNCHANGED qErr
  /\ UNCHANGED restOfQueue

\* processor.js:304: the reaction of result to the settled tail.  fn is
\* called and returns a value, throws, or returns a pending promise; a
\* reaction without a handler for the tail's state passes that state on.
QCall(beh) ==
  /\ qMq # << >>
  /\ Head(qMq).k = "fn"
  /\ LET k == Head(qMq).i
         st == IF enqueue("fn", Head(qMq).t) = "skip" THEN "skipped"
               ELSE IF beh = "returns" THEN "done"
               ELSE IF beh = "throws" THEN "failed"
               ELSE "running"
         e == IF st = "skipped" THEN Head(qMq).e
              ELSE IF st = "failed" THEN k ELSE 0
     IN /\ qTask' = [qTask EXCEPT ![k] = st]
        /\ qResult' = [qResult EXCEPT ![k] =
                         IF st = "done" THEN "fulfilled"
                         ELSE IF st = "running" THEN "pending"
                         ELSE "rejected"]
        /\ qErr' = [qErr EXCEPT ![k] = e]
        /\ qMq' = IF st = "running" THEN Tail(qMq)
                  ELSE Append(Tail(qMq),
                              Job("tail", k, IF st = "done" THEN "fulfilled"
                                             ELSE "rejected", e))
  /\ UNCHANGED <<qSerial, qEnqueued, qWaited>>
  /\ UNCHANGED restOfQueue

\* The promise returned by fn for task k settles.
QSettle(k, ok) ==
  /\ qTask[k] = "running"
  /\ qTask' = [qTask EXCEPT ![k] = IF ok THEN "done" ELSE "failed"]
  /\ qResult' = [qResult EXCEPT ![k] = IF ok THEN "fulfilled" ELSE "rejected"]
  /\ qErr' = [qErr EXCEPT ![k] = IF ok THEN 0 ELSE k]
  /\ qMq' = Append(qMq, Job("tail", k, IF ok THEN "fulfilled" ELSE "rejected",
                            IF ok THEN 0 ELSE k))
  /\ UNCHANGED <<qSerial, qEnqueued, qWaited>>
  /\ UNCHANGED restOfQueue

\* processor.js:307: the reaction of the tail to the settled result.
QSettleTail ==
  /\ qMq # << >>
  /\ Head(qMq).k = "tail"
  /\ LET st == enqueue("tail", Head(qMq).t)
         e == IF st = "rejected" THEN Head(qMq).e ELSE 0
     IN IF qSerial.waiting # << >>
          THEN /\ qSerial' = [qSerial EXCEPT !.waiting = Tail(@)]
               /\ qMq' = Append(Tail(qMq), Job("fn", Head(qSerial.waiting), st, e))
          ELSE /\ qSerial' = [qSerial EXCEPT !.tail = st, !.err = e]
               /\ qMq' = Tail(qMq)
  /\ UNCHANGED <<qTask, qResult, qErr, qEnqueued, qWaited>>
  /\ UNCHANGED restOfQueue

\* ------------------------------------------------ the keyed data store
\* JSON values of the abstract fields: null (also standing for a missing
\* field), a string, or an array of strings.
Null == [t |-> "null", v |-> << >>]
Str(x) == [t |-> "str", v |-> <<x>>]
Arr(seq) == [t |-> "arr", v |-> seq]
Truthy(x) == x.t = "arr" \/ (x.t = "str" /\ x.v # <<"">>)

\* data.js:32-34: every truthy incoming value not yet included is pushed.
RECURSIVE pushAll(_, _)
pushAll(arr, incoming) ==
  IF incoming = << >> THEN arr
  ELSE LET v == Head(incoming)
       IN pushAll(IF v # "" /\ v \notin Range(arr) THEN Append(arr, v) ELSE arr,
                  Tail(incoming))

\* data.js:28-39
mergeArraysReplace(existing, incoming) ==
  IF incoming.t = "arr" THEN (IF Len(incoming.v) > 0 THEN incoming ELSE Null)
  ELSE IF Truthy(incoming) THEN Arr(incoming.v)
  ELSE IF existing.t = "arr" THEN existing
  ELSE IF Truthy(existing) THEN Arr(existing.v) ELSE Null
mergeArraysNoDedup(existing, incoming) ==
  LET arr == IF existing.t = "arr" THEN existing.v
             ELSE IF Truthy(existing) THEN existing.v ELSE << >>
      out == IF Truthy(incoming) THEN arr \o incoming.v ELSE arr
  IN IF Len(out) > 0 THEN Arr(out) ELSE Null
mergeArrays(existing, incoming) ==
  LET arr == IF existing.t = "arr" THEN existing.v
             ELSE IF Truthy(existing) THEN existing.v ELSE << >>
      out == IF incoming.t = "arr" THEN pushAll(arr, incoming.v)
             ELSE IF Truthy(incoming) /\ incoming.v[1] \notin Range(arr)
               THEN Append(arr, incoming.v[1])
             ELSE arr
  IN IF Len(out) > 0 THEN Arr(out) ELSE Null

\* Identifiers: the same law is cited with an http and with an https URL.
NoEli == [scheme |-> "", path |-> ""]
Elis == {[scheme |-> "http", path |-> "eli/loi/1"],
         [scheme |-> "https", path |-> "eli/loi/1"],
         [scheme |-> "https", path |-> "eli/loi/2"]}
Articles == {"1", "general"}
Eclis == {"ECLI:1"}
AbstractsFR == {Null, Str(""), Str("a"), Str("b")}
AbstractsNL == {Null, Str("n")}
Strings == {"a", "b", "n"}

\* utils.js eliToFilename: the path of the URL with / replaced by _.
eliToFilename(eli) == eli.path
Filenames == {eliToFilename(e) : e \in Elis}

NoRecord == [present |-> FALSE, abstractFR |-> Null, abstractNL |-> Null]

\* data.js:46-69: one legal basis of one entry is merged and saved.
storeBase(f, ecli, entry, base) ==
  IF base.eli = NoEli THEN f
  ELSE LET filename == eliToFilename(base.eli)
           existing == f[filename][base.article][ecli]
       IN [f EXCEPT ![filename][base.article][ecli] =
             [present |-> TRUE,
              abstractFR |-> mergeArrays(existing.abstractFR, entry.abstractFR),
              abstractNL |-> mergeArrays(existing.abstractNL, entry.abstractNL)]]

RECURSIVE storeBases(_, _, _, _)
storeBases(f, ecli, entry, bases) ==
  IF bases = << >> THEN f
  ELSE storeBases(storeBase(f, ecli, entry, Head(bases)), ecli, entry, Tail(bases))

\* data.js:41-72
RECURSIVE storeJudgementData(_, _, _)
storeJudgementData(f, ecli, abstractToBasesMap) ==
  IF abstractToBasesMap = << >> THEN f
  ELSE storeJudgementData(
         storeBases(f, ecli, Head(abstractToBasesMap),
                    Head(abstractToBasesMap).legalBases),
         ecli, Tail(abstractToBasesMap))

Basis(e, a) == [eli |-> e, article |-> a]
LegalBasesChoices ==
  {<<Basis([scheme |-> "http", path |-> "eli/loi/1"], "1")>>,
   <<Basis([scheme |-> "https", path |-> "eli/loi/1"], "1"),
     Basis([scheme |-> "https", path |-> "eli/loi/2"], "general")>>,
   <<Basis([scheme |-> "https", path |-> "eli/loi/2"], "general"),
     Basis(NoEli, "1")>>}
Entries ==
  [abstractFR : AbstractsFR, abstractNL : AbstractsNL, legalBases : LegalBasesChoices]
\* An abstractToBasesMap holds one entry, or two fiches citing the same laws.
BasesMaps ==
  {<<e>> : e \in Entries} \cup
  {<<p[1], p[2]>> : p \in {q \in Entries \X Entries :
                              /\ q[2].legalBases = q[1].legalBases
                              /\ q[2].abstractNL = Null
                              /\ q[2].abstractFR # Null}}

emptyFiles ==
  [fn \in Filenames |-> [a \in Articles |-> [j \in Eclis |-> NoRecord]]]
\* A file written before abstracts were stored as arrays holds a string.
legacyFiles ==
  [emptyFiles EXCEPT !["eli/loi/1"]["1"]["ECLI:1"] =
     [present |-> TRUE, abstractFR |-> Str("a"), abstractNL |-> Null]]

noMerges ==
  [fn \in Filenames |-> [a \in Articles |-> [j \in Eclis |->
     [l \in {"FR", "NL"} |-> [x \in Strings |-> 0]]]]]

MergeInit ==
  \/ files = emptyFiles /\ merged = noMerges
  \/ /\ files = legacyFiles
     /\ merged = [noMerges EXCEPT !["eli/loi/1"]["1"]["ECLI:1"]["FR"]["a"] = 1]

\* How often the call merges string x of language l into the record.
timesMerged(m, fn, a, l, x) ==
  Cardinality({<<n, k>> \in (1..Len(m)) \X (1..2) :
                 /\ k <= Len(m[n].legalBases)
                 /\ m[n].legalBases[k].eli # NoEli
                 /\ eliToFilename(m[n].legalBases[k].eli) = fn
                 /\ m[n].legalBases[k].article = a
                 /\ (IF l = "FR" THEN m[n].abstractFR ELSE m[n].abstractNL) = Str(x)})

atMostTwo(n) == IF n > 2 THEN 2 ELSE n

\* A commit or a reconciliation replay calls storeJudgementData.
Store(ecli, m) ==
  /\ files' = storeJudgementData(files, ecli, m)
  /\ merged' = [fn \in Filenames |-> [a \in Articles |-> [j \in Eclis |->
                  [l \in {"FR", "NL"} |-> [x \in Strings |->
                     IF j = ecli
                       THEN atMostTwo(merged[fn][a][j][l][x]
                                      + timesMerged(m, fn, a, l, x))
                       ELSE merged[fn][a][j][l][x]]]]]]
  /\ UNCHANGED restOfMerge

\* ------------------------------------------------------- identifiers
\* An identifier is a string.  The model keeps what the code looks at: the
\* scheme ("" when the string is no URL), the path as its segments, the
\* query as its parameters in order, and whether the string is written as
\* URL.toString() writes it (not so, for instance, with an upper-case host).
Id(scheme, path, query, serialized) ==
  [scheme |-> scheme, path |-> path, query |-> query, serialized |-> serialized]
NoId == Id("", << >>, << >>, TRUE)

\* constants.js ELI_TYPE_NL_TO_FR
ELI_TYPE_NL_TO_FR ==
  [t \in {"wet", "grondwet", "decreet", "ordonnantie", "bijzondere-wet",
          "wetboek", "besluit"} |->
     CASE t = "wet" -> "loi"
       [] t = "grondwet" -> "constitution"
       [] t = "decreet" -> "decret"
       [] t = "ordonnantie" -> "ordonnance"
       [] t = "bijzondere-wet" -> "loi-speciale"
       [] t = "wetboek" -> "code"
       [] OTHER -> "arrete"]
toFrench(type) ==
  IF type \in DOMAIN ELI_TYPE_NL_TO_FR THEN ELI_TYPE_NL_TO_FR[type] ELSE type

\* Position of the first element of seq equal to x, 0 when there is none.
indexOf(seq, x) ==
  IF \E n \in 1..Len(seq) : seq[n] = x
    THEN CHOOSE n \in 1..Len(seq) : seq[n] = x /\ \A m \in 1..(n - 1) : seq[m] # x
    ELSE 0

\* The first match of /\/eli\/([^/]+)\//: a segment "eli" followed by a
\* segment that is itself followed by a slash.  0 when there is none.
eliMatch(eli) ==
  IF \E n \in 1..(Len(eli.path) - 2) : eli.path[n] = "eli"
    THEN CHOOSE n \in 1..(Len(eli.path) - 2) :
           eli.path[n] = "eli" /\ \A m \in 1..(n - 1) : eli.path[m] # "eli"
    ELSE 0

\* utils.js normalizeEliToFrench
normalizeEliToFrench(eli) ==
  IF eli = NoId \/ eliMatch(eli) = 0 THEN eli
  ELSE [eli EXCEPT !.path[eliMatch(eli) + 1] = toFrench(@)]

\* URLSearchParams.get and .set on the query.
getParam(query, k) ==
  IF \E n \in 1..Len(query) : query[n][1] = k
    THEN query[CHOOSE n \in 1..Len(query) :
                 query[n][1] = k /\ \A m \in 1..(n - 1) : query[m][1] # k][2]
    ELSE ""
RECURSIVE setParamFrom(_, _, _, _)
setParamFrom(query, k, v, seen) ==
  IF query = << >> THEN << >>
  ELSE IF Head(query)[1] # k THEN <<Head(query)>> \o setParamFrom(Tail(query), k, v, seen)
  ELSE IF seen THEN setParamFrom(Tail(query), k, v, TRUE)
  ELSE <<(<<k, v>>)>> \o setParamFrom(Tail(query), k, v, TRUE)
setParam(query, k, v) == setParamFrom(query, k, v, FALSE)

isUrl(x) == x.scheme \in {"http", "https"}
pathIncludes(x, seg) == \E n \in 1..Len(x.path) : x.path[n] = seg

\* utils.js normalizeCgiUrl; NoId stands for null.
normalizeCgiUrl(url) ==
  IF ~isUrl(url) THEN NoId
  ELSE IF ~pathIncludes(url, "cgi_loi") /\ ~pathIncludes(url, "cgi_wet") THEN NoId
  ELSE IF ~pathIncludes(url, "cgi_wet") THEN [url EXCEPT !.serialized = TRUE]
  ELSE LET q1 == IF getParam(url.query, "language") = "nl"
                   THEN setParam(url.query, "language", "fr") ELSE url.query
           q2 == IF getParam(q1, "la") = "N" THEN setParam(q1, "la", "F") ELSE q1
           tableName == getParam(q2, "table_name")
           q3 == IF tableName \in DOMAIN ELI_TYPE_NL_TO_FR
                   THEN setParam(q2, "table_name", ELI_TYPE_NL_TO_FR[tableName])
                   ELSE q2
       IN [scheme |-> url.scheme,
           path |-> [url.path EXCEPT ![indexOf(url.path, "cgi_wet")] = "cgi_loi"],
           query |-> q3,
           serialized |-> TRUE]

\* ----------------------------------------------------- citation texts
\* The text of a reference entry or of a citation line, by what the
\* patterns look at:
\*   role     it starts with "Numéro de rôle" or "Rolnummer"
\*   id       the identifier it is, NoId when it is none
\*   stem     it starts with a principle marker ("Principe général du
\*            droit", "...beginsel")
\*   law      its law name, "" when it has none
\*   date     the law name is followed by " - DD-MM-YYYY"
\*   art      an "Art." token follows (after " - ")
\*   arts     the article numbers parseArticleNumbers finds behind "Art."
\*   counter  a trailing " - NN" counter follows
Text(role, id, stem, law, date, art, arts, counter) ==
  [role |-> role, id |-> id, stem |-> stem, law |-> law, date |-> date,
   art |-> art, arts |-> arts, counter |-> counter]
NoText == Text(FALSE, NoId, FALSE, "", FALSE, FALSE, << >>, FALSE)
RoleText == [NoText EXCEPT !.role = TRUE]
IdText(id) == [NoText EXCEPT !.id = id]
Cite(stem, law, date, art, arts, counter) ==
  Text(FALSE, NoId, stem, law, date, art, arts, counter)

\* constants.js: the shared patterns, on a text of the layout
\* "<law> - <date> - Art. <articles> - <counter>".
RE_ART_REF_WITH_COUNTER(text) == text.date /\ text.art /\ text.counter
RE_ART_REF_NO_COUNTER(text) == text.date /\ text.art
RE_ART_REF_NO_DATE(text) == text.law # "" /\ text.art
RE_REF_NO_ART(text) == text.date /\ ~text.art
RE_LEGAL_PRINCIPLE(text) == text.stem

\* utils.js extractLegalBasisKey: the text up to its first date, the whole
\* text when it has no date.
extractLegalBasisKey(text) ==
  IF text.date
    THEN [text EXCEPT !.art = FALSE, !.arts = << >>, !.counter = FALSE]
    ELSE text

\* utils.js parseArticleNumbers(artMatch[1], text)
parseArticleNumbers(text) == text.arts

\* ---------------------------------------------------- parseSitemapXml
\* The reference entries a sitemap document can hold.
XmlIds ==
  {Id("https", <<"eli", "wet", "1", "justel">>, << >>, TRUE),
   Id("https", <<"eli", "loi", "1", "justel">>, << >>, TRUE),
   Id("https", <<"eli", "loi", "2", "justel">>, << >>, TRUE)}
XmlUrls ==
  {Id("http", <<"cgi_wet", "change_lg.pl">>,
      <<(<<"language", "nl">>), (<<"table_name", "wet">>), (<<"cn", "3">>)>>, TRUE),
   Id("https", <<"other", "page">>, << >>, TRUE)}
XmlCites ==
  {Cite(FALSE, "A", TRUE, TRUE, <<"5">>, TRUE),
   Cite(FALSE, "A", TRUE, TRUE, <<"6">>, FALSE),
   Cite(FALSE, "B", TRUE, TRUE, <<"1">>, TRUE),
   Cite(FALSE, "B", FALSE, TRUE, <<"2">>, FALSE),
   Cite(FALSE, "A", TRUE, FALSE, << >>, TRUE),
   Cite(TRUE, "", FALSE, FALSE, << >>, FALSE),
   Cite(TRUE, "P", FALSE, TRUE, <<"6">>, FALSE),
   Cite(FALSE, "junk", FALSE, FALSE, << >>, FALSE)}
Ref(type, text) == [type |-> type, text |-> text]
XmlRefs ==
  {Ref("OTHER", RoleText)}
  \cup {Ref("OTHER", IdText(u)) : u \in XmlUrls}
  \cup {Ref("OTHER", t) : t \in XmlCites}
  \cup {Ref("ELI", IdText(e)) : e \in XmlIds}

XmlKeys == {extractLegalBasisKey(t) : t \in XmlCites}
NoKey == NoText
emptyCache == [k \in XmlKeys |-> NoId]

\* The parser's local variables.
XmlState(ca, key, cache, lb, lbw) ==
  [currentArticles |-> ca, currentLawKey |-> key, lawKeyEliCache |-> cache,
   legalBases |-> lb, legalBasesWithoutEli |-> lbw]

\* One pending article; line is the position of its entry in the list.
Pending(article, text, line) ==
  [article |-> article, eli |-> NoId, rawText |-> text, line |-> line]
Unresolved(a) ==
  [article |-> a.article, rawLegalBasisText |-> extractLegalBasisKey(a.rawText),
   line |-> a.line]
withEli(seq, eli) == [n \in 1..Len(seq) |-> [seq[n] EXCEPT !.eli = eli]]
unresolvedAll(seq) == [n \in 1..Len(seq) |-> Unresolved(seq[n])]

\* sitemap.js:198-206 and 295-303: an identifier (an ELI entry or a bare
\* URL) is bound to the pending articles.
bindEliUncached(st, text) ==
  IF Len(st.currentArticles) > 0
    THEN XmlState(<< >>, NoKey, st.lawKeyEliCache,
                  st.legalBases \o withEli(st.currentArticles, text.id),
                  st.legalBasesWithoutEli)
    ELSE st
bindEli(st, text) ==
  IF Len(st.currentArticles) > 0
    THEN XmlState(<< >>, NoKey,
                  IF st.currentLawKey # NoKey
                    THEN [st.lawKeyEliCache EXCEPT ![st.currentLawKey] = text.id]
                    ELSE st.lawKeyEliCache,
                  st.legalBases \o withEli(st.currentArticles, text.id),
                  st.legalBasesWithoutEli)
    ELSE st

\* sitemap.js:247-255, 275-283, 310-318: the pending articles are flushed,
\* with the cached identifier of their law key when there is one.
flushPendingUncached(st) ==
  IF Len(st.currentArticles) = 0 THEN st
  ELSE [st EXCEPT !.legalBasesWithoutEli = @ \o unresolvedAll(st.currentArticles)]
flushPending(st) ==
  LET cachedEli == IF st.currentLawKey # NoKey
                     THEN st.lawKeyEliCache[st.currentLawKey] ELSE NoId
  IN IF Len(st.currentArticles) = 0 THEN st
     ELSE IF cachedEli # NoId
       THEN [st EXCEPT !.legalBases = @ \o withEli(st.currentArticles, cachedEli)]
     ELSE [st EXCEPT !.legalBasesWithoutEli = @ \o unresolvedAll(st.currentArticles)]

\* sitemap.js:214-220: a principle flushes the pending articles as
\* unresolved and is recorded with article null ("" here).
principleEntry(st, text, line) ==
  LET flushed == IF Len(st.currentArticles) > 0
                   THEN XmlState(<< >>, NoKey, st.lawKeyEliCache, st.legalBases,
                                 st.legalBasesWithoutEli \o unresolvedAll(st.currentArticles))
                   ELSE st
  IN [flushed EXCEPT !.legalBasesWithoutEli =
        Append(@, [article |-> "", rawLegalBasisText |-> text, line |-> line])]

\* sitemap.js:244-263 and 274-288: a citation of law key newLawKey with the
\* given articles joins the pending group or starts a new one.
regroup(st, newLawKey, articles, text, line) ==
  LET g == IF newLawKey # st.currentLawKey
             THEN [flushPending(st) EXCEPT !.currentArticles = << >>,
                                           !.currentLawKey = newLawKey]
             ELSE st
  IN [g EXCEPT !.currentArticles =
        @ \o [n \in 1..Len(articles) |-> Pending(articles[n], text, line)]]

\* sitemap.js:181-306: the body of the loop for one entry.
xmlEntry(st, ref, line) ==
  LET text == ref.text
  IN IF ref.type = "OTHER" /\ text.role THEN st
     ELSE IF ref.type = "OTHER" /\ isUrl(text.id) THEN bindEli(st, text)
     ELSE IF ref.type = "OTHER" /\ RE_LEGAL_PRINCIPLE(text)
       THEN principleEntry(st, text, line)
     ELSE IF ref.type = "OTHER" /\ (\/ RE_ART_REF_WITH_COUNTER(text)
                                    \/ RE_ART_REF_NO_COUNTER(text)
                                    \/ RE_ART_REF_NO_DATE(text))
       THEN regroup(st, extractLegalBasisKey(text), parseArticleNumbers(text),
                    text, line)
     ELSE IF ref.type = "OTHER" /\ RE_REF_NO_ART(text)
       THEN regroup(st, extractLegalBasisKey(text), <<"general">>, text, line)
     ELSE IF ref.type = "ELI" THEN bindEli(st, text)
     ELSE st

\* sitemap.js:321-348: the bases with a recognizable identifier, with the
\* identifier normalized, one per article and identifier.
includesEli(x) == \E n \in 1..(Len(x.path) - 1) : x.path[n] = "eli"
canonicalEli(eli) ==
  IF eli = NoId THEN NoId
  ELSE IF includesEli(eli) THEN normalizeEliToFrench(eli)
  ELSE IF isUrl(eli) THEN normalizeCgiUrl(eli)
  ELSE NoId
RECURSIVE dedupBasesRaw(_, _)
dedupBasesRaw(lbs, seen) ==
  IF lbs = << >> THEN << >>
  ELSE LET lb == Head(lbs)
           eli == canonicalEli(lb.eli)
           key == <<lb.article, lb.eli>>
       IN IF eli = NoId \/ key \in seen THEN dedupBasesRaw(Tail(lbs), seen)
          ELSE <<[lb EXCEPT !.eli = eli]>> \o dedupBasesRaw(Tail(lbs), seen \cup {key})
RECURSIVE dedupBases(_, _)
dedupBases(lbs, seen) ==
  IF lbs = << >> THEN << >>
  ELSE LET lb == Head(lbs)
           eli == canonicalEli(lb.eli)
           key == <<lb.article, eli>>
       IN IF eli = NoId \/ key \in seen THEN dedupBases(Tail(lbs), seen)
          ELSE <<[lb EXCEPT !.eli = eli]>> \o dedupBases(Tail(lbs), seen \cup {key})

MaxRefs == 4

XmlInit ==
  /\ refs = << >>
  /\ xmlPc = "loop"
  /\ currentArticles = << >>
  /\ currentLawKey = NoKey
  /\ lawKeyEliCache = emptyCache
  /\ legalBases = << >>
  /\ legalBasesWithoutEli = << >>
  /\ uniqueBases = << >>
  /\ errorsJson = {}

xmlNow ==
  XmlState(currentArticles, currentLawKey, lawKeyEliCache, legalBases,
           legalBasesWithoutEli)

\* sitemap.js:181-306: the loop reads the next reference entry.
XmlRef(ref) ==
  /\ xmlPc = "loop"
  /\ Len(refs) < MaxRefs
  /\ LET st == xmlEntry(xmlNow, ref, Len(refs) + 1)
     IN /\ currentArticles' = st.currentArticles
        /\ currentLawKey' = st.currentLawKey
        /\ lawKeyEliCache' = st.lawKeyEliCache
        /\ legalBases' = st.legalBases
        /\ legalBasesWithoutEli' = st.legalBasesWithoutEli
  /\ refs' = Append(refs, ref)
  /\ UNCHANGED <<xmlPc, uniqueBases, errorsJson>>
  /\ UNCHANGED restOfXml

\* sitemap.js:308-369: the list is exhausted; the pending articles are
\* flushed and the result is returned.
XmlEnd ==
  /\ xmlPc = "loop"
  /\ LET st == flushPending(xmlNow)
     IN /\ legalBases' = st.legalBases
        /\ legalBasesWithoutEli' = st.legalBasesWithoutEli
        /\ uniqueBases' = dedupBases(st.legalBases, {})
  /\ xmlPc' = "done"
  /\ UNCHANGED <<refs, currentArticles, currentLawKey, lawKeyEliCache, errorsJson>>
  /\ UNCHANGED restOfXml

\* ------------------------------------------------ parseJudgementHtml
\* One citation line of a fiche: its text and the link it carries (NoId
\* when it carries none).
HtmlLine(text, href) == [text |-> text, href |-> href]

\* A legal basis with its identifier, and one without.
Base(article, eli) == [article |-> article, eli |-> eli]
Missing(article, key) == [article |-> article, rawLegalBasisText |-> key]
basesOf(articles, eli) == [n \in 1..Len(articles) |-> Base(articles[n], eli)]
missingOf(articles, key) == [n \in 1..Len(articles) |-> Missing(articles[n], key)]

\* judgement.js:81-85: the identifier of the line, from its ELI link or
\* else from its cgi_loi / cgi_wet link.
eliLinkOf(href) ==
  LET eliHref == IF includesEli(href) THEN href ELSE NoId
      eliLink == normalizeEliToFrench(eliHref)
      cgiHref == IF pathIncludes(href, "cgi_loi") \/ pathIncludes(href, "cgi_wet")
                   THEN href ELSE NoId
  IN IF eliLink # NoId THEN eliLink
     ELSE IF cgiHref # NoId THEN normalizeCgiUrl(cgiHref)
     ELSE NoId

\* What the parser collects for one fiche, and the lines it could not read.
FicheState(lb, missing, unextractable) ==
  [legalBases |-> lb, missingEliBases |-> missing, unextractable |-> unextractable]

\* judgement.js:76-136: one citation line of a fiche.
htmlEntry(f, line) ==
  LET text == line.text
      eliLink == eliLinkOf(line.href)
      lawKey == extractLegalBasisKey(text)
  IN IF \/ RE_ART_REF_WITH_COUNTER(text)
        \/ RE_ART_REF_NO_COUNTER(text)
        \/ RE_ART_REF_NO_DATE(text)
       THEN IF eliLink = NoId
              THEN [f EXCEPT !.missingEliBases =
                      @ \o missingOf(parseArticleNumbers(text), lawKey)]
              ELSE [f EXCEPT !.legalBases =
                      @ \o basesOf(parseArticleNumbers(text), eliLink)]
     ELSE IF text = NoText THEN f
     ELSE IF RE_LEGAL_PRINCIPLE(text)
       THEN [f EXCEPT !.missingEliBases = Append(@, Missing("", text))]
     ELSE IF RE_REF_NO_ART(text)
       THEN IF eliLink # NoId
              THEN [f EXCEPT !.legalBases = Append(@, Base("general", eliLink))]
              ELSE [f EXCEPT !.missingEliBases = Append(@, Missing("general", lawKey))]
     ELSE [f EXCEPT !.unextractable = Append(@, text)]

RECURSIVE htmlEntries(_, _)
htmlEntries(f, lines) ==
  IF lines = << >> THEN f
  ELSE htmlEntries(htmlEntry(f, Head(lines)), Tail(lines))

\* An abstract is a text; words is the set textSimilarity compares: its
\* lower-cased words of more than three letters.  NoAbstract is null or "".
Abstract(id, words) == [id |-> id, words |-> words]
NoAbstract == Abstract(<< >>, {})

\* judgement.js:42-162: the fiches of the page, one per fieldset with an
\* abstract.
RECURSIVE parseFiches(_)
parseFiches(fieldsets) ==
  IF fieldsets = << >> THEN << >>
  ELSE LET fs == Head(fieldsets)
           f == htmlEntries(FicheState(<< >>, << >>, << >>), fs.lines)
       IN IF fs.abstract = NoAbstract THEN parseFiches(Tail(fieldsets))
          ELSE <<[abstract |-> fs.abstract, legalBases |-> f.legalBases,
                  missingEliBases |-> f.missingEliBases]>>
               \o parseFiches(Tail(fieldsets))

RECURSIVE unextractableOf(_)
unextractableOf(fieldsets) ==
  IF fieldsets = << >> THEN << >>
  ELSE LET fs == Head(fieldsets)
       IN (IF fs.abstract = NoAbstract THEN << >>
           ELSE htmlEntries(FicheState(<< >>, << >>, << >>), fs.lines).unextractable)
          \o unextractableOf(Tail(fieldsets))

\* judgement.js:35-165
parseJudgementHtml(html) ==
  [fiches |-> parseFiches(html), unextractable |-> unextractableOf(html)]

\* ------------------------------------------------ fetchSitemapResult
\* sitemap.js:358-369: what parseSitemapXml returns for a document, by
\* its reference entries and its abstracts.
RECURSIVE xmlEntries(_, _, _)
xmlEntries(st, rs, line) ==
  IF rs = << >> THEN st
  ELSE xmlEntries(xmlEntry(st, Head(rs), line), Tail(rs), line + 1)
projectBases(lbs) == [n \in 1..Len(lbs) |-> Base(lbs[n].article, lbs[n].eli)]
projectMissing(ms) ==
  [n \in 1..Len(ms) |-> Missing(ms[n].article, ms[n].rawLegalBasisText)]
parseSitemapXml(doc) ==
  LET st == flushPending(xmlEntries(XmlState(<< >>, NoKey, emptyCache, << >>, << >>),
                                    doc.refs, 1))
  IN [abstractsFR |-> doc.abstractsFR,
      abstractsNL |-> doc.abstractsNL,
      legalBases |-> projectBases(dedupBases(st.legalBases, {})),
      legalBasesWithoutEli |-> projectMissing(st.legalBasesWithoutEli)]
NoJudgement ==
  [abstractsFR |-> << >>, abstractsNL |-> << >>, legalBases |-> << >>,
   legalBasesWithoutEli |-> << >>]

\* utils.js textSimilarity, as the fraction <<numerator, denominator>>.
textSimilarity(a, b) ==
  IF a = NoAbstract \/ b = NoAbstract THEN <<0, 1>>
  ELSE IF a.words = {} \/ b.words = {} THEN <<0, 1>>
  ELSE <<2 * Cardinality(a.words \cap b.words),
         Cardinality(a.words) + Cardinality(b.words)>>
greater(p, q) == p[1] * q[2] > q[1] * p[2]

\* Array.join(' | ') of abstracts.
RECURSIVE joinAbstracts(_)
joinAbstracts(abstracts) ==
  IF abstracts = << >> THEN NoAbstract
  ELSE LET rest == joinAbstracts(Tail(abstracts))
       IN Abstract(Head(abstracts).id \o rest.id, Head(abstracts).words \cup rest.words)

Entry(abstractFR, abstractNL, lb, missing) ==
  [abstractFR |-> abstractFR, abstractNL |-> abstractNL, legalBases |-> lb,
   missingEliBases |-> missing]
first(abstracts) == IF abstracts = << >> THEN NoAbstract ELSE abstracts[1]
max(a, b) == IF a > b THEN a ELSE b
totalAbstracts(j) == max(Len(j.abstractsFR), Len(j.abstractsNL))

\* processor.js:80-82: the first HTML basis with an identifier and the
\* article of the missing one; 0 when there is none.
htmlMatchAny(htmlBases, missing) ==
  IF \E n \in 1..Len(htmlBases) : htmlBases[n].eli # NoId
    THEN CHOOSE n \in 1..Len(htmlBases) :
           htmlBases[n].eli # NoId /\ \A m \in 1..(n - 1) : htmlBases[m].eli = NoId
    ELSE 0
htmlMatch(htmlBases, missing) ==
  IF \E n \in 1..Len(htmlBases) :
       htmlBases[n].eli # NoId /\ htmlBases[n].article = missing.article
    THEN CHOOSE n \in 1..Len(htmlBases) :
           /\ htmlBases[n].eli # NoId /\ htmlBases[n].article = missing.article
           /\ \A m \in 1..(n - 1) :
                ~(htmlBases[m].eli # NoId /\ htmlBases[m].article = missing.article)
    ELSE 0

RECURSIVE flatBases(_)
flatBases(fiches) ==
  IF fiches = << >> THEN << >>
  ELSE Head(fiches).legalBases \o flatBases(Tail(fiches))

\* processor.js:79-89
RECURSIVE resolvedFromHtml(_, _)
resolvedFromHtml(xmlMissingEli, htmlBases) ==
  IF xmlMissingEli = << >> THEN << >>
  ELSE LET missing == Head(xmlMissingEli)
           n == htmlMatch(htmlBases, missing)
       IN (IF n # 0 THEN <<Base(missing.article, htmlBases[n].eli)>> ELSE << >>)
          \o resolvedFromHtml(Tail(xmlMissingEli), htmlBases)
RECURSIVE stillMissing(_, _)
stillMissing(xmlMissingEli, htmlBases) ==
  IF xmlMissingEli = << >> THEN << >>
  ELSE LET missing == Head(xmlMissingEli)
       IN (IF htmlMatch(htmlBases, missing) = 0 THEN <<missing>> ELSE << >>)
          \o stillMissing(Tail(xmlMissingEli), htmlBases)

\* processor.js:64-108: at most one abstract.  page is the outcome of the
\* download of the judgement page: not tried, failed, or its fieldsets.
singleAbstractMap(j, page) ==
  LET xmlMissingEli == j.legalBasesWithoutEli
      htmlBases == flatBases(parseJudgementHtml(page.fieldsets).fiches)
      resolved == IF page.status = "ok"
                    THEN j.legalBases \o resolvedFromHtml(xmlMissingEli, htmlBases)
                    ELSE j.legalBases
      missing == IF page.status = "ok" THEN stillMissing(xmlMissingEli, htmlBases)
                 ELSE xmlMissingEli
  IN <<Entry(first(j.abstractsFR), first(j.abstractsNL), resolved, missing)>>

\* processor.js:135-144: the best of the abstracts not used yet.
RECURSIVE scan(_, _, _, _, _)
scan(ficheAbstract, abstracts, used, i, best) ==
  IF i > Len(abstracts) THEN best
  ELSE IF i \in used THEN scan(ficheAbstract, abstracts, used, i + 1, best)
  ELSE LET score == textSimilarity(ficheAbstract, abstracts[i])
       IN scan(ficheAbstract, abstracts, used, i + 1,
               IF greater(score, best.score) THEN [idx |-> i, score |-> score]
               ELSE best)
NoBest == [idx |-> 0, score |-> <<0, 1>>]
bestOfAll(fiche, j, usedFR, usedNL) ==
  scan(fiche.abstract, j.abstractsNL, {}, 1,
       scan(fiche.abstract, j.abstractsFR, {}, 1, NoBest))
bestOfUnmarkedNL(fiche, j, usedFR, usedNL) ==
  scan(fiche.abstract, j.abstractsNL, {}, 1,
       scan(fiche.abstract, j.abstractsFR, usedFR, 1, NoBest))
bestOf(fiche, j, usedFR, usedNL) ==
  scan(fiche.abstract, j.abstractsNL, usedNL, 1,
       scan(fiche.abstract, j.abstractsFR, usedFR, 1, NoBest))
\* processor.js:148: the best index is claimed above the threshold 0.2.
claimsAny(best) == best.idx # 0
claims(best) == best.idx # 0 /\ greater(best.score, <<1, 5>>)

\* processor.js:130-161: the fiches claim their abstracts in document order.
RECURSIVE correlate(_, _, _, _)
correlate(fiches, j, usedFR, usedNL) ==
  IF fiches = << >> THEN << >>
  ELSE LET fiche == Head(fiches)
           best == bestOf(fiche, j, usedFR, usedNL)
           inFR == claims(best) /\ best.idx <= Len(j.abstractsFR)
           inNL == claims(best) /\ best.idx <= Len(j.abstractsNL)
       IN <<Entry(IF inFR THEN j.abstractsFR[best.idx] ELSE NoAbstract,
                  IF inNL THEN j.abstractsNL[best.idx] ELSE NoAbstract,
                  fiche.legalBases, fiche.missingEliBases)>>
          \o correlate(Tail(fiches), j,
                       IF inFR THEN usedFR \cup {best.idx} ELSE usedFR,
                       IF inNL THEN usedNL \cup {best.idx} ELSE usedNL)

\* processor.js:114
hasData(f) == Len(f.legalBases) > 0 \/ Len(f.missingEliBases) > 0
RECURSIVE withData(_)
withData(fiches) ==
  IF fiches = << >> THEN << >>
  ELSE (IF hasData(Head(fiches)) THEN <<Head(fiches)>> ELSE << >>)
       \o withData(Tail(fiches))

\* processor.js:119-124 and 167-172
fallbackMap(j) ==
  <<Entry(joinAbstracts(j.abstractsFR), joinAbstracts(j.abstractsNL),
          j.legalBases, << >>)>>

\* processor.js:110-174: several abstracts.
multiAbstractMap(j, page) ==
  LET fichesWithData == withData(parseJudgementHtml(page.fieldsets).fiches)
  IN IF page.status # "ok" \/ fichesWithData = << >> THEN fallbackMap(j)
     ELSE correlate(fichesWithData, j, {}, {})

\* processor.js:60-176
buildMap(j, page) ==
  IF totalAbstracts(j) <= 1 THEN singleAbstractMap(j, page)
  ELSE multiAbstractMap(j, page)

\* ------------------------------------------- commit and reconciliation
\* One element of missing_eli.json (the judgement is the same throughout).
Element(article, abstractFR, abstractNL) ==
  [article |-> article, abstractFR |-> abstractFR, abstractNL |-> abstractNL]
NoItem == [present |-> FALSE, eli |-> NoId, elements |-> << >>]

\* storage.js:96-118
appendMissingEliAlways(data, rawLegalBasisText, element) ==
  LET item == IF data[rawLegalBasisText].present THEN data[rawLegalBasisText]
              ELSE [present |-> TRUE, eli |-> NoId, elements |-> << >>]
  IN [data EXCEPT ![rawLegalBasisText] = [item EXCEPT !.elements = Append(@, element)]]
appendMissingEli(data, rawLegalBasisText, element) ==
  LET item == IF data[rawLegalBasisText].present THEN data[rawLegalBasisText]
              ELSE [present |-> TRUE, eli |-> NoId, elements |-> << >>]
      duplicate == \E n \in 1..Len(item.elements) : item.elements[n] = element
  IN [data EXCEPT ![rawLegalBasisText] =
        IF duplicate THEN item ELSE [item EXCEPT !.elements = Append(@, element)]]

RECURSIVE recordMissing(_, _, _)
recordMissing(data, entry, missing) ==
  IF missing = << >> THEN data
  ELSE recordMissing(
         appendMissingEli(data, Head(missing).rawLegalBasisText,
                          Element(Head(missing).article, entry.abstractFR,
                                  entry.abstractNL)),
         entry, Tail(missing))

\* data.js:74-100
RECURSIVE recordMissingEliData(_, _)
recordMissingEliData(data, abstractToBasesMap) ==
  IF abstractToBasesMap = << >> THEN data
  ELSE recordMissingEliData(
         recordMissing(data, Head(abstractToBasesMap),
                       Head(abstractToBasesMap).missingEliBases),
         Tail(abstractToBasesMap))

\* data.js:44-70: the bases storeJudgementData writes, each with the
\* abstracts of its entry.
Written(base, entry) ==
  [article |-> base.article, eli |-> base.eli, abstractFR |-> entry.abstractFR,
   abstractNL |-> entry.abstractNL]
writtenBy(abstractToBasesMap) ==
  UNION {{Written(abstractToBasesMap[n].legalBases[k], abstractToBasesMap[n]) :
            k \in {i \in 1..Len(abstractToBasesMap[n].legalBases) :
                     abstractToBasesMap[n].legalBases[i].eli # NoId}} :
         n \in 1..Len(abstractToBasesMap)}

\* data.js:102-107
normalizeLegalBasisEliRaw(eli) == eli
normalizeLegalBasisEli(eli) ==
  IF eli = NoId THEN NoId
  ELSE IF includesEli(eli) THEN normalizeEliToFrench(eli)
  ELSE IF isUrl(eli) THEN normalizeCgiUrl(eli)
  ELSE NoId

\* utils.js normalizeArticleNumber on an article of the store: a number
\* is kept, "general" and "" are no article number.
normalizeArticleNumber(art) == IF art = "general" THEN "" ELSE art

\* data.js:121-151: the keys of missing_eli.json that are replayed.
replayed(data, key) ==
  /\ data[key].present
  /\ Len(data[key].elements) > 0
  /\ data[key].eli # NoId
  /\ normalizeLegalBasisEli(data[key].eli) # NoId
replayOf(data) ==
  UNION {{Written(Base(normalizeArticleNumber(data[key].elements[n].article),
                       normalizeLegalBasisEli(data[key].eli)),
                  data[key].elements[n]) :
            n \in 1..Len(data[key].elements)} :
         key \in {k \in DOMAIN data : replayed(data, k)}}

\* The documents of the fetch phase: reference entries and abstracts.
citeA5 == Cite(FALSE, "A", TRUE, TRUE, <<"5">>, TRUE)
citeA6 == Cite(FALSE, "A", TRUE, TRUE, <<"6">>, FALSE)
citeB1 == Cite(FALSE, "B", TRUE, TRUE, <<"1">>, TRUE)
citeB2 == Cite(FALSE, "B", FALSE, TRUE, <<"2">>, FALSE)
citePrinciple == Cite(TRUE, "", FALSE, FALSE, << >>, FALSE)
citeJunk == Cite(FALSE, "junk", FALSE, FALSE, << >>, FALSE)
citeA0 == Cite(FALSE, "A", TRUE, FALSE, << >>, TRUE)
eliWet == Id("https", <<"eli", "wet", "1", "justel">>, << >>, TRUE)
eliLoi == Id("https", <<"eli", "loi", "2", "justel">>, << >>, TRUE)
cgiWet ==
  Id("http", <<"cgi_wet", "change_lg.pl">>,
     <<(<<"language", "nl">>), (<<"table_name", "wet">>), (<<"cn", "3">>)>>, TRUE)
otherUrl == Id("https", <<"other", "page">>, << >>, TRUE)

FetchRefs ==
  {<<Ref("OTHER", citeA5), Ref("ELI", IdText(eliWet))>>,
   <<Ref("OTHER", citeA5), Ref("ELI", IdText(eliWet)), Ref("OTHER", citeB2),
     Ref("OTHER", citePrinciple)>>,
   <<Ref("OTHER", citeB1)>>,
   <<Ref("OTHER", citeA6), Ref("OTHER", IdText(cgiWet)), Ref("OTHER", citePrinciple)>>,
   <<Ref("OTHER", citeA0)>>,
   << >>}
abstractFR1 == Abstract(<<"fr1">>, {"a", "b"})
abstractFR2 == Abstract(<<"fr2">>, {"c", "d", "e"})
abstractNL1 == Abstract(<<"nl1">>, {"n"})
abstractNL2 == Abstract(<<"nl2">>, {"m", "n", "o", "p", "q", "r", "s", "t", "z"})
abstractNL3 == Abstract(<<"nl3">>, {"c", "d", "n"})
FetchAbstracts ==
  {<<(<< >>), (<< >>)>>,
   <<(<<abstractFR1>>), (<<abstractNL1>>)>>,
   <<(<<abstractFR1, abstractFR2>>), (<<abstractNL1, abstractNL2>>)>>}
\* Documents with more abstracts in one language than in the other, and
\* with an NL abstract as close to a fiche as an FR abstract.
FetchAbstractsUneven ==
  {<<(<<abstractFR1, abstractFR2>>), (<<abstractNL3>>)>>,
   <<(<<abstractFR1>>), (<<abstractNL1, abstractNL3>>)>>,
   <<(<<abstractFR1, abstractFR2>>), (<<abstractNL3, abstractNL2>>)>>}
Docs ==
  {[refs |-> r, abstractsFR |-> a[1], abstractsNL |-> a[2]] :
     r \in FetchRefs, a \in FetchAbstracts}
  \cup {[refs |-> r, abstractsFR |-> a[1], abstractsNL |-> a[2]] :
          r \in {<<Ref("OTHER", citeA5), Ref("ELI", IdText(eliWet))>>, << >>},
          a \in FetchAbstractsUneven}

\* The fieldsets of a judgement page: an abstract and citation lines.
Fieldset(abstract, lines) == [abstract |-> abstract, lines |-> lines]
Fieldsets ==
  {Fieldset(Abstract(<<"f1">>, {"c", "d"}), <<HtmlLine(citeB1, eliWet)>>),
   Fieldset(Abstract(<<"f2">>, {"c", "d", "e"}), <<HtmlLine(citeB2, cgiWet)>>),
   Fieldset(Abstract(<<"f2">>, {"c", "d", "e"}), <<HtmlLine(citeA5, eliLoi)>>),
   Fieldset(Abstract(<<"f3">>, {"a", "b"}), <<HtmlLine(citeB1, NoId)>>),
   Fieldset(Abstract(<<"f4">>, {"z"}), <<HtmlLine(citeB2, otherUrl),
                                          HtmlLine(citePrinciple, NoId)>>),
   Fieldset(Abstract(<<"f1">>, {"c", "d"}), <<HtmlLine(citeJunk, NoId)>>),
   Fieldset(NoAbstract, <<HtmlLine(citeB1, eliWet)>>)}

MaxFiches == 2

RECURSIVE SeqsUpTo(_, _)
SeqsUpTo(S, n) ==
  IF n = 0 THEN {<< >>}
  ELSE LET shorter == SeqsUpTo(S, n - 1)
       IN shorter \cup {Append(s, x) : s \in shorter, x \in S}

Page(status, fieldsets) == [status |-> status, fieldsets |-> fieldsets]
NoPage == Page("none", << >>)
Pages == {Page("throws", << >>)} \cup {Page("ok", fs) : fs \in SeqsUpTo(Fieldsets, MaxFiches)}

\* The identifiers a user writes into missing_eli.json.
UserElis == {eliWet, cgiWet, otherUrl, Id("", <<"unknown">>, << >>, FALSE)}

FetchKeys ==
  {extractLegalBasisKey(t) : t \in {citeA5, citeA6, citeB1, citeB2, citePrinciple}}
emptyMissing == [k \in FetchKeys |-> NoItem]

FetchInit ==
  /\ fetchPc = "start"
  /\ judgement = NoJudgement
  /\ judgementPage = NoPage
  /\ resultType = "none"
  /\ payload = << >>
  /\ missingEliJson = emptyMissing
  /\ dataJson = {}

\* processor.js:24-108: the document is parsed; the result is built at
\* once unless the judgement page is needed.
FetchXml(doc) ==
  /\ fetchPc = "start"
  /\ LET j == parseSitemapXml(doc)
         noBases == Len(j.legalBases) = 0 /\ Len(j.legalBasesWithoutEli) = 0
         needsPage == totalAbstracts(j) > 1 \/ Len(j.legalBasesWithoutEli) > 0
     IN /\ judgement' = j
        /\ IF noBases
             THEN /\ resultType' = "no-bases"
                  /\ fetchPc' = "result"
                  /\ UNCHANGED payload
           ELSE IF needsPage
             THEN /\ fetchPc' = "page"
                  /\ UNCHANGED <<resultType, payload>>
           ELSE /\ resultType' = "save"
                /\ fetchPc' = "result"
                /\ payload' = buildMap(j, NoPage)
  /\ UNCHANGED <<judgementPage, missingEliJson, dataJson>>
  /\ UNCHANGED restOfFetch

\* processor.js:73-99 and 112-173: the download of the judgement page ends
\* and the result is built.
FetchHtml(p) ==
  /\ fetchPc = "page"
  /\ judgementPage' = p
  /\ payload' = buildMap(judgement, p)
  /\ resultType' = "save"
  /\ fetchPc' = "result"
  /\ UNCHANGED <<judgement, missingEliJson, dataJson>>
  /\ UNCHANGED restOfFetch

\* processor.js:189-229: the result is committed.
CommitResult ==
  /\ fetchPc = "result"
  /\ IF resultType = "save"
       THEN /\ missingEliJson' = recordMissingEliData(missingEliJson, payload)
            /\ dataJson' = dataJson \cup writtenBy(payload)
       ELSE UNCHANGED <<missingEliJson, dataJson>>
  /\ fetchPc' = "committed"
  /\ UNCHANGED <<judgement, judgementPage, resultType, payload>>
  /\ UNCHANGED restOfFetch

\* A user writes the identifier of a law into missing_eli.json.
FillEli(key, eli) ==
  /\ fetchPc = "committed"
  /\ missingEliJson[key].present
  /\ missingEliJson[key].eli = NoId
  /\ missingEliJson' = [missingEliJson EXCEPT ![key].eli = eli]
  /\ UNCHANGED <<fetchPc, judgement, judgementPage, resultType, payload, dataJson>>
  /\ UNCHANGED restOfFetch

\* data.js:109-155: the elements of the keys with a valid identifier are
\* stored and removed.
ProcessMissingEliFile ==
  /\ fetchPc = "committed"
  /\ \E k \in FetchKeys : missingEliJson[k].present
  /\ dataJson' = dataJson \cup replayOf(missingEliJson)
  /\ missingEliJson' =
       [k \in FetchKeys |->
          IF replayed(missingEliJson, k)
            THEN [missingEliJson[k] EXCEPT !.elements = << >>]
            ELSE missingEliJson[k]]
  /\ UNCHANGED <<fetchPc, judgement, judgementPage, resultType, payload>>
  /\ UNCHANGED restOfFetch

\* ------------------------------------------------- fetch.js fetchWithRetry
RETRY_DELAY_MS == 5000

MaxRetries == 3

\* How an attempt ends: the body is read, or the timer aborts the request,
\* or fetch rejects, or the status is not OK, or reading the body rejects.
Bodies == {"body1", "body2"}
Failures == {"timeout", "transport", "status", "body"}
Outcome(kind, body) == [kind |-> kind, body |-> body]
NoOutcome == Outcome("none", "")

RetryInit ==
  /\ retryPc = "idle"
  /\ retries = 0
  /\ attempt = 0
  /\ attempts = << >>
  /\ waits = << >>
  /\ settled = NoOutcome

\* processor.js:505: for (let attempt = 1; attempt <= retries; attempt++)
inLoop(a, r) == a <= r
\* processor.js:529: if (attempt < retries)
mayRetryAlways(a, r) == a <= r
mayRetry(a, r) == a < r

\* The call: the loop starts, or the function ends without a value.
FetchWithRetry(r) ==
  /\ retryPc = "idle"
  /\ retries' = r
  /\ attempt' = 1
  /\ retryPc' = IF inLoop(1, r) THEN "fetch" ELSE "returned"
  /\ UNCHANGED <<attempts, waits, settled>>
  /\ UNCHANGED restOfRetry

\* processor.js:517-524: the response is OK and its body is read.
AttemptOk(body) ==
  /\ retryPc = "fetch"
  /\ attempts' = Append(attempts, Outcome("ok", body))
  /\ settled' = Outcome("ok", body)
  /\ retryPc' = "returned"
  /\ UNCHANGED <<retries, attempt, waits>>
  /\ UNCHANGED restOfRetry

\* processor.js:525-536: the attempt failed; the catch block waits or rethrows.
AttemptFails(kind) ==
  /\ retryPc = "fetch"
  /\ attempts' = Append(attempts, Outcome(kind, ""))
  /\ IF mayRetry(attempt, retries)
       THEN /\ retryPc' = "sleep"
            /\ UNCHANGED settled
       ELSE /\ retryPc' = "thrown"
            /\ settled' = Outcome(kind, "")
  /\ UNCHANGED <<retries, attempt, waits>>
  /\ UNCHANGED restOfRetry

\* processor.js:532: sleep(RETRY_DELAY_MS) is over; the loop goes on.
SleepOver ==
  /\ retryPc = "sleep"
  /\ waits' = Append(waits, [after |-> attempt, ms |-> RETRY_DELAY_MS])
  /\ attempt' = attempt + 1
  /\ retryPc' = IF inLoop(attempt + 1, retries) THEN "fetch" ELSE "returned"
  /\ UNCHANGED <<retries, attempts, settled>>
  /\ UNCHANGED restOfRetry

\* ------------------------------------------ applying the normalizers
MaxSegments == 3

NormSegments == {"eli", "wet", "loi", "wetboek", "cgi_wet", "cgi_loi", "x"}
NormQueries ==
  {<< >>,
   <<(<<"language", "nl">>), (<<"la", "N">>)>>,
   <<(<<"table_name", "wet">>), (<<"language", "fr">>), (<<"language", "nl">>)>>}
NormIds ==
  {Id(scheme, path, query, serialized) :
     scheme \in {"https", ""}, path \in SeqsUpTo(NormSegments, MaxSegments),
     query \in NormQueries, serialized \in BOOLEAN}

NormIdle == normX = NoId /\ normFn = "none" /\ normOut = << >>
NormInit == normX \in NormIds /\ normFn = "none" /\ normOut = << >>

lastOut == IF normOut = << >> THEN normX ELSE normOut[Len(normOut)]

ApplyEli ==
  /\ normFn \in {"none", "eli"}
  /\ Len(normOut) < 2
  /\ normFn' = "eli"
  /\ normOut' = Append(normOut, normalizeEliToFrench(lastOut))
  /\ UNCHANGED normX
  /\ UNCHANGED restOfNorm

ApplyCgi ==
  /\ normFn \in {"none", "cgi"}
  /\ Len(normOut) < 2
  /\ normFn' = "cgi"
  /\ normOut' = Append(normOut, normalizeCgiUrl(lastOut))
  /\ UNCHANGED normX
  /\ UNCHANGED restOfNorm

\* ------------------------------------------ article numbers, as text
\* A text is a sequence of symbols: one digit, one punctuation mark, one
\* space, or one whole word (a run of letters).
MaxDepth == 3          \* digit groups of one article token

Digits == {"0", "1", "2", "3", "4", "5", "6", "7", "8", "9"}
DigitSeq == <<"0", "1", "2", "3", "4", "5", "6", "7", "8", "9">>
Latin ==
  {"bis", "ter", "quater", "quinquies", "sexies", "septies", "octies",
   "nonies", "decies"}
Ordinals == {"ste", "de", "nd", "er"}
\* Words all of whose letters are in [IVXLCDM], case ignored.
RomanWords == {"I", "V", "X", "L", "C", "D", "M", "XX", "IV", "lid"}
Words ==
  Latin \cup Ordinals \cup RomanWords
    \cup {"R", "al", "et", "en", "zesde", "unique", "Protocole", "Convention",
          "collective", "de", "travail", "Code", "civil", "Loi"}

isDigit(c) == c \in Digits
isLetters(c) == c \in Words
isRoman(c) == c \in RomanWords
isWordChar(c) == isDigit(c) \/ isLetters(c)
isSpace(c) == c = " "
notSpace(c) == c # " "

\* Where the longest run of symbols satisfying P that starts at i ends
\* (the position after the run); a greedy [class]* from position i.
runEnd(s, i, P(_)) ==
  CHOOSE j \in i..(Len(s) + 1) :
    /\ \A k \in i..(j - 1) : P(s[k])
    /\ j = Len(s) + 1 \/ ~P(s[j])

\* \b between s[i-1] and s[i].
wordBoundary(s, i) ==
  (i > 1 /\ isWordChar(s[i - 1])) # (i <= Len(s) /\ isWordChar(s[i]))

trim(s) ==
  LET a == runEnd(s, 1, isSpace) IN
  IF a > Len(s) THEN << >>
  ELSE SubSeq(s, a, CHOOSE j \in a..Len(s) :
                      notSpace(s[j]) /\ \A k \in (j + 1)..Len(s) : isSpace(s[k]))

\* part_000:6-8: text.replace(/\s+/g, ' ').trim()
normalizeWhitespace(s) ==
  LET keep == {i \in 1..Len(s) : notSpace(s[i]) \/ i = 1 \/ notSpace(s[i - 1])}
      nth(k) == CHOOSE i \in keep : Cardinality({j \in keep : j < i}) = k - 1
  IN trim([k \in 1..Cardinality(keep) |-> s[nth(k)]])

\* part_000:64-68, on the law name of the line: a Convention that is not a
\* "Convention collective" or "Convention de travail", a Protocole, a
\* Traite or a Verdrag.
isInternationalInstrument(text) ==
  \E i \in 1..Len(text) :
    \/ text[i] \in {"Protocole", "Protocol", "Verdrag"}
    \/ /\ text[i] = "Convention"
       /\ LET w == runEnd(text, i + 1, isSpace) IN
          ~ /\ w > i + 1
            /\ w <= Len(text)
            /\ \/ text[w] \in {"collective", "collectives", "collectieve"}
               \/ /\ text[w] = "de"
                  /\ LET v == runEnd(text, w + 1, isSpace) IN
                     v > w + 1 /\ v <= Len(text) /\ text[v] = "travail"

\* The ends of [0-9]+(?:[seps][0-9]+)* read from i, i being the end of the
\* first run of digits: the end after no group, one group, two groups, ...
RECURSIVE groupEnds(_, _, _)
groupEnds(s, i, seps) ==
  IF i <= Len(s) /\ s[i] \in seps /\ runEnd(s, i + 1, isDigit) > i + 1
    THEN <<i>> \o groupEnds(s, runEnd(s, i + 1, isDigit), seps)
    ELSE <<i>>

\* (?:bis|ter|...)? read at i.
afterLatin(s, i) == IF i <= Len(s) /\ s[i] \in Latin THEN i + 1 ELSE i

\* The end of the match of <digits>(?:[seps]<digits>){0,most}(?:latin)?\b
\* for digits starting at d, 0 when there is none: the regular expression
\* engine prefers more groups, and with equal groups the Latin suffix.
numberEnd(s, d, seps, most) ==
  LET d1 == runEnd(s, d, isDigit)
      all == groupEnds(s, d1, seps)
      ends == SubSeq(all, 1, IF Len(all) > most + 1 THEN most + 1 ELSE Len(all))
      ok == {k \in 1..Len(ends) :
               \/ wordBoundary(s, afterLatin(s, ends[k]))
               \/ wordBoundary(s, ends[k])}
      best == CHOOSE k \in ok : \A j \in ok : j <= k
  IN IF d1 = d \/ ok = {} THEN 0
     ELSE IF wordBoundary(s, afterLatin(s, ends[best]))
            THEN afterLatin(s, ends[best])
            ELSE ends[best]

\* part_000:137: /^(?:§|al\.|alin[ée]a|lid)\s/i
isQualifier(s) ==
  \/ Len(s) >= 2 /\ s[1] \in {"§", "lid", "alinea"} /\ isSpace(s[2])
  \/ Len(s) >= 3 /\ s[1] = "al" /\ s[2] = "." /\ isSpace(s[3])

\* part_000:144: .replace(/,.*$/, '')
stripComma(s) ==
  LET commas == {i \in 1..Len(s) : s[i] = ","} IN
  IF commas = {} THEN s
  ELSE SubSeq(s, 1, (CHOOSE i \in commas : \A j \in commas : i <= j) - 1)

\* part_000:145: .replace(/^([0-9]+)(?:ère?|ième|ème|ste|de|nd|er)\b/i, '$1')
stripOrdinal(s) ==
  LET d == runEnd(s, 1, isDigit) IN
  IF d > 1 /\ d <= Len(s) /\ s[d] \in Ordinals /\ wordBoundary(s, d + 1)
    THEN SubSeq(s, 1, d - 1) \o SubSeq(s, d + 1, Len(s))
    ELSE s

\* No text is taken for a sub-item marker.
isSubItemNever(s) == FALSE

\* part_000:151: /^[0-9]+°\s*$/
isSubItem(s) ==
  LET d == runEnd(s, 1, isDigit) IN
  /\ d > 1 /\ d <= Len(s) /\ s[d] = "°"
  /\ runEnd(s, d + 1, isSpace) = Len(s) + 1

\* part_000:157: Pattern A, the end of the match or 0.
letterPrefixMatch(s) ==
  LET l == runEnd(s, 1, isLetters)
      d == runEnd(s, l, isSpace)
  IN IF l = 1 THEN 0 ELSE numberEnd(s, d, {"/", ".", "-"}, Len(s))

\* part_000:165: Pattern B, the end of the match or 0.
romanDotMatch(s) ==
  LET r == runEnd(s, 1, isRoman) IN
  IF r = 1 \/ r > Len(s) \/ s[r] # "." THEN 0
  ELSE numberEnd(s, r + 1, {}, 0)

\* part_000:178: Pattern E, the ends of the digit groups of the match
\* (more than one), or << >>.
dotMatch(s) ==
  LET d1 == runEnd(s, 1, isDigit)
      ends == groupEnds(s, d1, {"."})
      ok == {k \in 2..Len(ends) :
               ends[k] = Len(s) + 1 \/ s[ends[k]] \notin Digits \cup {"."}}
  IN IF d1 = 1 \/ ok = {} THEN << >>
     ELSE SubSeq(ends, 1, CHOOSE k \in ok : \A j \in ok : j <= k)

\* The whole chunk, whatever it is: no normalization.
normalizeArticleRaw(art, isInternational) == trim(art)

\* part_000:133-193
normalizeArticleText(art, isInternational) ==
  LET trimmed == trim(art)
      text == trim(stripOrdinal(stripComma(art)))
      a == letterPrefixMatch(text)
      b == romanDotMatch(text)
      segments == dotMatch(text)
      m == numberEnd(text, 1, {"-", ":", "/"}, 1)
  IN IF isQualifier(trimmed) THEN << >>
     ELSE IF text = << >> THEN << >>
     ELSE IF isSubItem(text) THEN << >>
     ELSE IF a # 0 THEN SelectSeq(SubSeq(text, 1, a - 1), notSpace)
     ELSE IF b # 0 THEN SubSeq(text, 1, b - 1)
     ELSE IF segments # << >>
       THEN IF Len(segments) >= 3 \/ ~isInternational
              THEN SubSeq(text, 1, segments[Len(segments)] - 1)
              ELSE SubSeq(text, 1, segments[1] - 1)
     ELSE IF m # 0 THEN SubSeq(text, 1, m - 1)
     ELSE << >>

\* part_000:88: where the separator that starts at p ends, 0 when none does.
separatorEnd(s, p) ==
  LET twoDigits(q) == q + 1 <= Len(s) /\ isDigit(s[q]) /\ isDigit(s[q + 1])
      c == runEnd(s, p + 1, isSpace)
      w == runEnd(s, p, isSpace)
      v == IF w <= Len(s) THEN runEnd(s, w + 1, isSpace) ELSE w
  IN IF s[p] = "," /\ twoDigits(c) THEN c
     ELSE IF /\ isSpace(s[p]) /\ w <= Len(s) /\ s[w] \in {"et", "en"}
             /\ v > w + 1 /\ twoDigits(v)
       THEN v
     ELSE 0

\* part_000:87-88: text.split(...)
RECURSIVE splitArticles(_)
splitArticles(s) ==
  LET hits == {p \in 1..Len(s) : separatorEnd(s, p) # 0} IN
  IF hits = {} THEN <<s>>
  ELSE LET p == CHOOSE i \in hits : \A j \in hits : i <= j IN
       <<SubSeq(s, 1, p - 1)>>
         \o splitArticles(SubSeq(s, separatorEnd(s, p), Len(s)))

digitValue(c) == (CHOOSE i \in 1..10 : DigitSeq[i] = c) - 1

\* parseInt(art, 10) of a text of digits.
RECURSIVE parseInt(_)
parseInt(s) ==
  IF s = << >> THEN 0
  ELSE 10 * parseInt(SubSeq(s, 1, Len(s) - 1)) + digitValue(s[Len(s)])

\* part_000:102: !isNaN(n) && String(n) === art
isPurelyNumeric(art) ==
  /\ art # << >>
  /\ \A i \in 1..Len(art) : isDigit(art[i])
  /\ Len(art) = 1 \/ art[1] # "0"

\* part_000:92: [...new Set(chunks)]
uniqueInOrder(chunks) ==
  LET fresh == {i \in 1..Len(chunks) : \A j \in 1..(i - 1) : chunks[j] # chunks[i]}
      nth(k) == CHOOSE i \in fresh : Cardinality({j \in fresh : j < i}) = k - 1
  IN [k \in 1..Cardinality(fresh) |-> chunks[nth(k)]]

\* No article is filtered out.
ascendingAll(arts, lastNumeric) == arts

\* part_000:98-107: the filter, lastNumeric being the last accepted number.
RECURSIVE ascending(_, _)
ascending(arts, lastNumeric) ==
  IF arts = << >> THEN << >>
  ELSE IF isPurelyNumeric(arts[1])
    THEN IF parseInt(arts[1]) < lastNumeric
           THEN ascending(Tail(arts), lastNumeric)
           ELSE <<arts[1]>> \o ascending(Tail(arts), parseInt(arts[1]))
  ELSE <<arts[1]>> \o ascending(Tail(arts), lastNumeric)

notEmpty(chunk) == chunk # << >>

\* part_000:77-109
parseArticleText(raw, rawLegalBasisText) ==
  LET text == normalizeWhitespace(raw)
      intl == isInternationalInstrument(rawLegalBasisText)
      pieces == splitArticles(text)
      chunks ==
        SelectSeq([i \in 1..Len(pieces) |-> normalizeArticleText(pieces[i], intl)],
                  notEmpty)
  IN IF text = << >> THEN << >>
     ELSE ascending(uniqueInOrder(chunks), 0)

\* The citation lines read: a law name, one article chunk made of a lead, up
\* to MaxDepth digit groups joined by one separator, a suffix and a tail,
\* and what follows the chunk in the articles captured.
ArtLaws ==
  {<<"Protocole">>, <<"Convention">>, <<"Convention", " ", "collective">>,
   <<"Code", " ", "civil">>}
ArtLeads == {<< >>, <<"§", " ">>, <<"L", " ">>, <<"XX", ".">>, <<"zesde", " ">>}
ArtNumbers == {<<"6">>, <<"1", "4">>}
ArtSeparators == {".", "-", ":"}
ArtSuffixes == {<< >>, <<"bis">>, <<"er">>, <<"°">>, <<".">>}
ArtTails == {<< >>, <<",", " ", "§", " ", "1">>}
ArtFollowers ==
  {<< >>, <<",", " ", "1", "4">>, <<",", " ", "1", "2">>,
   <<" ", "et", " ", "6", "6">>, <<" ", "et", " ", "6">>}
\* Followers of a chunk of one digit group: a suffixed article, and a list
\* that rises and then falls.
ArtFollowersOfOne ==
  {<<",", " ", "1", "2", "bis">>,
   <<",", " ", "6", "6", ",", " ", "1", "4">>}

RECURSIVE joined(_, _)
joined(groups, sep) ==
  IF groups = << >> THEN << >>
  ELSE IF Len(groups) = 1 THEN groups[1]
  ELSE groups[1] \o <<sep>> \o joined(Tail(groups), sep)

ArtChunk(lead, groups, sep, suffix, tail) ==
  [lead |-> lead, groups |-> groups, sep |-> sep, suffix |-> suffix,
   tail |-> tail]
ArtChunks ==
  {ArtChunk(lead, groups, sep, suffix, tail) :
     lead \in ArtLeads, groups \in SeqsUpTo(ArtNumbers, MaxDepth),
     sep \in ArtSeparators, suffix \in ArtSuffixes, tail \in ArtTails}
chunkText(c) == c.lead \o joined(c.groups, c.sep) \o c.suffix \o c.tail

NoLine == [law |-> << >>, chunk |-> ArtChunk(<< >>, << >>, ".", << >>, << >>),
           follower |-> << >>]
ArtLines ==
  {[law |-> law, chunk |-> c, follower |-> f] :
     law \in ArtLaws, c \in ArtChunks, f \in ArtFollowers}
  \cup {[law |-> law, chunk |-> c, follower |-> f] :
          law \in ArtLaws, c \in {d \in ArtChunks : Len(d.groups) = 1},
          f \in ArtFollowersOfOne}
\* The articles captured by pattern 1, 2 or 3: (.+?), trimmed.
rawArticles(line) == trim(chunkText(line.chunk) \o line.follower)

ArtIdle == artLine = NoLine /\ artPc = "idle" /\ artOut = << >>
ArtInit ==
  /\ artLine \in {l \in ArtLines : trim(chunkText(l.chunk)) # << >>}
  /\ artPc = "idle"
  /\ artOut = << >>

\* part_000:133: normalizeArticleNumber(chunk, intl) on the chunk alone.
NormalizeChunk ==
  /\ artPc = "idle"
  /\ artLine.follower = << >>
  /\ artOut' = <<normalizeArticleText(chunkText(artLine.chunk),
                                      isInternationalInstrument(artLine.law))>>
  /\ artPc' = "normalized"
  /\ UNCHANGED artLine
  /\ UNCHANGED restOfArt

\* sitemap.js:237, judgement.js:98: parseArticleNumbers(rawArticles, text)
ParseArticles ==
  /\ artPc = "idle"
  /\ artOut' = parseArticleText(rawArticles(artLine), artLine.law)
  /\ artPc' = "parsed"
  /\ UNCHANGED artLine
  /\ UNCHANGED restOfArt

\* ------------------------------- targeted runs and --fix-errors runs
\* index.js:83, index.js:149: { markProcessed: false }
markProcessedOn == TRUE
markProcessedOff == FALSE

\* settings.json as an earlier crawl can have left it: the sitemaps of a
\* processed index are pruned.
TgtSettings ==
  {s \in [processedSitemapIndexes : SUBSET Batches,
          processedSitemaps : {{}, {sitemapUrlsOf(1)[1]}, ItemsOf(1)}] :
     \A b \in s.processedSitemapIndexes : s.processedSitemaps \cap ItemsOf(b) = {}}
\* errors.json as an earlier crawl can have left it: its keys, in order.
TgtErrors == {SubSeq(sitemapUrlsOf(1), 1, n) : n \in 0..BatchSize(1)}
NoMode == [kind |-> "none", arg |-> 0]

TgtIdle ==
  /\ tgtPc = "idle" /\ tgtMode = NoMode /\ tgtUrls = << >> /\ tgtPos = 1
  /\ tgtSettings = emptySettings /\ tgtDisk = emptySettings
  /\ tgtStart = emptySettings /\ tgtCounters = zeroCounters
  /\ tgtErrors = {} /\ tgtOriginal = << >>
TgtInit ==
  /\ tgtPc = "idle" /\ tgtMode = NoMode /\ tgtUrls = << >> /\ tgtPos = 1
  /\ tgtSettings = emptySettings
  /\ tgtDisk \in TgtSettings
  /\ tgtStart = tgtDisk
  /\ tgtCounters = zeroCounters
  /\ tgtOriginal \in TgtErrors
  /\ tgtErrors = Range(tgtOriginal)

\* index.js:125-140: node index.js <url of one sitemap>
TargetedUrl(i) ==
  /\ tgtPc = "idle"
  /\ tgtMode' = [kind |-> "url", arg |-> i]
  /\ tgtSettings' = loadSettings(tgtDisk)
  /\ tgtUrls' = <<i>>
  /\ tgtPc' = "loop"
  /\ UNCHANGED <<tgtPos, tgtDisk, tgtStart, tgtCounters, tgtErrors, tgtOriginal>>
  /\ UNCHANGED restOfTgt

\* index.js:125-133: node index.js <url of a sitemap index>
TargetedIndex(b) ==
  /\ tgtPc = "idle"
  /\ tgtMode' = [kind |-> "index", arg |-> b]
  /\ tgtSettings' = loadSettings(tgtDisk)
  /\ tgtPc' = "listing"
  /\ UNCHANGED <<tgtUrls, tgtPos, tgtDisk, tgtStart, tgtCounters, tgtErrors,
                 tgtOriginal>>
  /\ UNCHANGED restOfTgt

\* index.js:133-134: fetchSitemapUrls(targetUrl) resolves.
TargetListingOk ==
  /\ tgtPc = "listing"
  /\ tgtUrls' = sitemapUrlsOf(tgtMode.arg)
  /\ tgtPc' = IF sitemapUrlsOf(tgtMode.arg) = << >> THEN "done" ELSE "loop"
  /\ UNCHANGED <<tgtMode, tgtPos, tgtSettings, tgtDisk, tgtStart, tgtCounters,
                 tgtErrors, tgtOriginal>>
  /\ UNCHANGED restOfTgt

\* index.js:135-138: fetchSitemapUrls(targetUrl) rejects; process.exit(1).
TargetListingFail ==
  /\ tgtPc = "listing"
  /\ tgtPc' = "fatal"
  /\ UNCHANGED <<tgtMode, tgtUrls, tgtPos, tgtSettings, tgtDisk, tgtStart,
                 tgtCounters, tgtErrors, tgtOriginal>>
  /\ UNCHANGED restOfTgt

\* index.js:56-70: node index.js --fix-errors
FixErrors ==
  /\ tgtPc = "idle"
  /\ tgtMode' = [kind |-> "fix", arg |-> 0]
  /\ IF tgtOriginal = << >>
       THEN /\ tgtPc' = "done"
            /\ UNCHANGED <<tgtErrors, tgtSettings, tgtUrls>>
       ELSE /\ tgtErrors' = {}
            /\ tgtSettings' = loadSettings(tgtDisk)
            /\ tgtUrls' = tgtOriginal
            /\ tgtPc' = "loop"
  /\ UNCHANGED <<tgtPos, tgtDisk, tgtStart, tgtCounters, tgtOriginal>>
  /\ UNCHANGED restOfTgt

\* index.js:76-110, index.js:146-150: one turn of the loop.  r is the result
\* of fetchSitemapResult, reRecorded tells whether the parse appended an
\* entry to errors.json, storeOk whether storeJudgementData succeeds.
ProcessSingleSitemapUrl(r, reRecorded, storeOk) ==
  /\ tgtPc = "loop"
  /\ r \in resultsOf(tgtUrls[tgtPos])
  /\ LET sitemapUrl == tgtUrls[tgtPos]
         fix == tgtMode.kind = "fix"
         parsed == IF reRecorded /\ r # "error"
                     THEN tgtErrors \cup {sitemapUrl} ELSE tgtErrors
         out == commitSitemapResult(r, sitemapUrl, tgtSettings,
                                    IF fix THEN zeroCounters ELSE tgtCounters,
                                    tgtDisk, markProcessedOff, storeOk)
     IN /\ tgtSettings' = out.settings
        /\ tgtDisk' = out.disk
        /\ tgtCounters' = out.counters
        /\ tgtErrors' = IF fix /\ ~out.ok /\ out.counters.errorCount > 0
                          THEN parsed \cup {sitemapUrl} ELSE parsed
  /\ tgtPos' = tgtPos + 1
  /\ tgtPc' = IF tgtPos = Len(tgtUrls) THEN "done" ELSE "loop"
  /\ UNCHANGED <<tgtMode, tgtUrls, tgtStart, tgtOriginal>>
  /\ UNCHANGED restOfTgt

\* ---------------------- the commits of one batch, statement by statement
\* The records storeJudgementData writes for a sitemap: one per legal basis
\* that has an identifier (data.js:62), two for a sitemap that is saved.
recordsOf(i) == IF contentOf(i) = "save" THEN <<(<<i, 1>>), (<<i, 2>>)>> ELSE << >>

\* processor.js:211-215: what follows recordMissingEliData.
afterRecordMark == "push"
afterRecord == "store"

CmStarts ==
  {[processedSitemapIndexes |-> {}, processedSitemaps |-> ps] :
     ps \in {{}, {sitemapUrlsOf(1)[1]}}}
CmIdle ==
  /\ cmPc = "idle" /\ cmTodo = {} /\ cmItem = 0 /\ cmResult = "none"
  /\ cmLeft = << >> /\ cmSettings = emptySettings /\ cmDisk = emptySettings
  /\ cmFiles = {} /\ cmOk = TRUE /\ cmAllOk = TRUE /\ cmCounters = zeroCounters
CmInit ==
  /\ cmPc = "next"
  /\ cmDisk \in CmStarts
  /\ cmSettings = loadSettings(cmDisk)
  /\ cmTodo = ItemsOf(1) \ cmDisk.processedSitemaps
  /\ cmFiles = UNION {Range(recordsOf(i)) : i \in cmDisk.processedSitemaps}
  /\ cmItem = 0 /\ cmResult = "none" /\ cmLeft = << >>
  /\ cmOk = TRUE /\ cmAllOk = TRUE /\ cmCounters = zeroCounters

\* index.js:236-238: the serial queue calls the commit of one fetched sitemap.
CmBegin(i, r) ==
  /\ cmPc = "next"
  /\ i \in cmTodo /\ r \in resultsOf(i)
  /\ cmTodo' = cmTodo \ {i}
  /\ cmItem' = i
  /\ cmResult' = r
  /\ cmLeft' = IF r = "save" THEN recordsOf(i) ELSE << >>
  /\ cmPc' = "commit"
  /\ UNCHANGED <<cmSettings, cmDisk, cmFiles, cmOk, cmAllOk, cmCounters>>
  /\ UNCHANGED restOfCm

\* processor.js:197-212: the branch on result.type, up to recordMissingEliData.
CmBranch ==
  /\ cmPc = "commit"
  /\ IF cmResult = "error"
       THEN /\ cmCounters' = [cmCounters EXCEPT !.errorCount = @ + 1]
            /\ cmOk' = FALSE
            /\ cmPc' = "return"
     ELSE IF cmResult \in {"empty", "no-bases"}
       THEN /\ cmPc' = "push"
            /\ UNCHANGED <<cmCounters, cmOk>>
     ELSE IF cmResult = "skip"
       THEN /\ cmCounters' = [cmCounters EXCEPT !.skippedCourt = @ + 1]
            /\ cmPc' = "push"
            /\ UNCHANGED cmOk
     ELSE /\ cmPc' = afterRecord
          /\ UNCHANGED <<cmCounters, cmOk>>
  /\ UNCHANGED <<cmTodo, cmItem, cmResult, cmLeft, cmSettings, cmDisk, cmFiles,
                 cmAllOk>>
  /\ UNCHANGED restOfCm

\* data.js:58-93: one turn of the loop of storeJudgementData: the file is
\* loaded, merged and saved.
CmStore ==
  /\ cmPc = "store"
  /\ cmLeft # << >>
  /\ cmFiles' = cmFiles \cup {Head(cmLeft)}
  /\ cmLeft' = Tail(cmLeft)
  /\ UNCHANGED <<cmPc, cmTodo, cmItem, cmResult, cmSettings, cmDisk, cmOk,
                 cmAllOk, cmCounters>>
  /\ UNCHANGED restOfCm

\* processor.js:215-217: storeJudgementData returned.
CmStored ==
  /\ cmPc = "store"
  /\ cmLeft = << >>
  /\ cmCounters' = [cmCounters EXCEPT !.savedJudgements = @ + 1]
  /\ cmPc' = "push"
  /\ UNCHANGED <<cmTodo, cmItem, cmResult, cmLeft, cmSettings, cmDisk, cmFiles,
                 cmOk, cmAllOk>>
  /\ UNCHANGED restOfCm

\* processor.js:218-222: a read or a write of storeJudgementData threw.
CmStoreThrows ==
  /\ cmPc = "store"
  /\ cmLeft # << >>
  /\ cmCounters' = [cmCounters EXCEPT !.errorCount = @ + 1]
  /\ cmOk' = FALSE
  /\ cmPc' = "return"
  /\ UNCHANGED <<cmTodo, cmItem, cmResult, cmLeft, cmSettings, cmDisk, cmFiles,
                 cmAllOk>>
  /\ UNCHANGED restOfCm

\* processor.js:192: settings.processedSitemaps.push(sitemapUrl)
CmPush ==
  /\ cmPc = "push"
  /\ cmSettings' = markDone(cmSettings, cmItem, TRUE)
  /\ cmPc' = "save"
  /\ UNCHANGED <<cmTodo, cmItem, cmResult, cmLeft, cmDisk, cmFiles, cmOk,
                 cmAllOk, cmCounters>>
  /\ UNCHANGED restOfCm

\* processor.js:193: saveSettings(settings); the commit returns true.
CmSave ==
  /\ cmPc = "save"
  /\ cmDisk' = saveSettings(cmSettings)
  /\ cmOk' = TRUE
  /\ cmPc' = "return"
  /\ UNCHANGED <<cmTodo, cmItem, cmResult, cmLeft, cmSettings, cmFiles, cmAllOk,
                 cmCounters>>
  /\ UNCHANGED restOfCm

\* index.js:238-245: the rest of the commit task.
CmReturn ==
  /\ cmPc = "return"
  /\ cmAllOk' = (cmAllOk /\ cmOk)
  /\ cmPc' = IF cmTodo = {} THEN "all" ELSE "next"
  /\ UNCHANGED <<cmTodo, cmItem, cmResult, cmLeft, cmSettings, cmDisk, cmFiles,
                 cmOk, cmCounters>>
  /\ UNCHANGED restOfCm

\* index.js:256-263: Promise.all resolved; the index is marked and its
\* sitemaps are pruned, in memory.
CmPromote ==
  /\ cmPc = "all"
  /\ IF cmAllOk
       THEN /\ cmSettings' =
                 [processedSitemapIndexes |->
                    cmSettings.processedSitemapIndexes \cup {1},
                  processedSitemaps |-> cmSettings.processedSitemaps \ ItemsOf(1)]
            /\ cmPc' = "saveIndex"
       ELSE /\ cmPc' = "partial"
            /\ UNCHANGED cmSettings
  /\ UNCHANGED <<cmTodo, cmItem, cmResult, cmLeft, cmDisk, cmFiles, cmOk,
                 cmAllOk, cmCounters>>
  /\ UNCHANGED restOfCm

\* index.js:264: saveSettings(settings)
CmSaveIndex ==
  /\ cmPc = "saveIndex"
  /\ cmDisk' = saveSettings(cmSettings)
  /\ cmPc' = "promoted"
  /\ UNCHANGED <<cmTodo, cmItem, cmResult, cmLeft, cmSettings, cmFiles, cmOk,
                 cmAllOk, cmCounters>>
  /\ UNCHANGED restOfCm

\* ------------------------------- the Semaphore driven by arbitrary clients
MaxClients == 3        \* tasks that share one Semaphore

Clients == 1..MaxClients
SemMaxes == {1, 2}
SemJob(k, i) == [k |-> k, i |-> i]
\* The orders in which one event of the event loop can resume clients.
Wakeups(ready) ==
  {q \in SeqsUpTo(ready, MaxClients) :
     q # << >> /\ \A m, n \in 1..Len(q) : m # n => q[m] # q[n]}

SemIdle ==
  /\ gSem = NewSemaphore(1) /\ gPc = [i \in Clients |-> "off"] /\ gMq = << >>
SemInit ==
  /\ gSem \in {NewSemaphore(m) : m \in SemMaxes}
  /\ gPc = [i \in Clients |-> "idle"]
  /\ gMq = << >>

\* A macrotask (a timer, the end of a transfer) settles promises that
\* clients await: their continuations are queued, in the order of q.
SemEvent(q) ==
  /\ gMq = << >>
  /\ q \in Wakeups({i \in Clients : gPc[i] \in {"idle", "holding"}})
  /\ gMq' = [n \in 1..Len(q) |-> SemJob("step", q[n])]
  /\ UNCHANGED <<gSem, gPc>>
  /\ UNCHANGED restOfSem

\* processor.js:264-271: a client calls acquire(); it takes a slot at once,
\* and its await resumes one job later, or it waits.
SemAcquire ==
  /\ gMq # << >>
  /\ Head(gMq).k = "step"
  /\ gPc[Head(gMq).i] = "idle"
  /\ LET i == Head(gMq).i
     IN /\ gSem' = acquire(gSem, i)
        /\ IF acquireFast(gSem)
             THEN /\ gPc' = [gPc EXCEPT ![i] = "returned"]
                  /\ gMq' = Append(Tail(gMq), SemJob("got", i))
             ELSE /\ gPc' = [gPc EXCEPT ![i] = "waiting"]
                  /\ gMq' = Tail(gMq)
  /\ UNCHANGED restOfSem

\* processor.js:274-280: a client that holds a slot calls release().
SemRelease ==
  /\ gMq # << >>
  /\ Head(gMq).k = "step"
  /\ gPc[Head(gMq).i] = "holding"
  /\ LET i == Head(gMq).i
         woken == releaseWakes(gSem)
     IN /\ gSem' = release(gSem)
        /\ gPc' = [j \in Clients |->
                     IF j = i THEN "idle"
                     ELSE IF j \in Range(woken) THEN "woken"
                     ELSE gPc[j]]
        /\ gMq' = Tail(gMq) \o [n \in 1..Len(woken) |-> SemJob("resume", woken[n])]
  /\ UNCHANGED restOfSem

\* processor.js:269-270: acquire() resumes after release() resolved the
\* promise it waited on, takes the slot and returns.
SemResume ==
  /\ gMq # << >>
  /\ Head(gMq).k = "resume"
  /\ gSem' = acquireResume(gSem)
  /\ gPc' = [gPc EXCEPT ![Head(gMq).i] = "returned"]
  /\ gMq' = Append(Tail(gMq), SemJob("got", Head(gMq).i))
  /\ UNCHANGED restOfSem

\* The client resumes after `await sem.acquire()`.
SemGot ==
  /\ gMq # << >>
  /\ Head(gMq).k = "got"
  /\ gPc' = [gPc EXCEPT ![Head(gMq).i] = "holding"]
  /\ gMq' = Tail(gMq)
  /\ UNCHANGED gSem
  /\ UNCHANGED restOfSem

\* ------------------- the commits of the judgements of a run on the stores
MaxOutcomes == 2       \* sitemaps of the run whose result is to be saved
MaxCommits == 3        \* commits followed

CsItems == 1..MaxOutcomes
CsKeys == {"K1", "K2"}
csEcli == "ECLI:1"
httpLoi1 == [scheme |-> "http", path |-> "eli/loi/1"]
httpsLoi1 == [scheme |-> "https", path |-> "eli/loi/1"]
httpsLoi2 == [scheme |-> "https", path |-> "eli/loi/2"]
CsEntry(fr, nl, lbs, missing) ==
  [abstractFR |-> fr, abstractNL |-> nl, legalBases |-> lbs, missingEliBases |-> missing]
\* The abstractToBasesMap of a result: one entry, or one entry per fiche.
CsMaps ==
  {<<CsEntry(Str("a"), Str("n"), <<Basis(httpsLoi1, "1"), Basis(httpsLoi2, "general")>>,
             << >>)>>,
   <<CsEntry(Str("b"), Null, <<Basis(httpLoi1, "1")>>, <<Missing("2", "K1")>>)>>,
   <<CsEntry(Str("a"), Null, <<Basis(httpLoi1, "1")>>, << >>),
     CsEntry(Str("b"), Null, <<Basis(httpsLoi1, "1"), Basis(NoEli, "general")>>,
             <<Missing("", "K2"), Missing("2", "K1")>>)>>,
   <<CsEntry(Null, Str("n"), << >>, <<Missing("general", "K2")>>)>>}

\* data.js:44-47: what storeJudgementData writes, in order: one record per
\* basis with an identifier, of every entry.
hasEli(w) == w.base.eli # NoEli
RECURSIVE writesOf(_)
writesOf(map) ==
  IF map = << >> THEN << >>
  ELSE LET e == Head(map)
       IN SelectSeq([k \in 1..Len(e.legalBases) |->
                       [entry |-> e, base |-> e.legalBases[k]]], hasEli)
          \o writesOf(Tail(map))
\* data.js:44-70: the given writes are made one after the other.
RECURSIVE storeWrites(_, _, _)
storeWrites(f, ecli, writes) ==
  IF writes = << >> THEN f
  ELSE storeWrites(storeBase(f, ecli, Head(writes).entry, Head(writes).base),
                   ecli, Tail(writes))

emptyReconciliation == [k \in CsKeys |-> NoItem]
NoCommit == [n |-> 0, item |-> 0, kind |-> "none", done |-> 0, again |-> FALSE]

CsIdle ==
  /\ csFiles = emptyFiles /\ csMissing = emptyReconciliation
  /\ csSettings = emptySettings /\ csDisk = emptySettings
  /\ csCounters = zeroCounters
  /\ csPlan = [files0 |-> emptyFiles, maps |-> << >>]
  /\ csTried = {} /\ csWritten = {} /\ csLast = NoCommit
CsInit ==
  /\ csPlan \in [files0 : {emptyFiles, legacyFiles}, maps : [CsItems -> CsMaps]]
  /\ csFiles = csPlan.files0
  /\ csMissing = emptyReconciliation
  /\ csSettings = emptySettings /\ csDisk = emptySettings
  /\ csCounters = zeroCounters
  /\ csTried = {} /\ csWritten = {} /\ csLast = NoCommit

\* index.js:238-246 and processor.js:213-228: the commit of the result of
\* sitemap i.  failAt = 0: every write of storeJudgementData succeeds;
\* failAt = k: its k-th write throws, after the k - 1 writes before it.
CsCommit(i, failAt) ==
  /\ csLast.n < MaxCommits
  /\ i \notin csTried
  /\ ~sitemapAlreadyProcessed(csSettings, i)
  /\ LET map == csPlan.maps[i]
         writes == writesOf(map)
         storeOk == failAt = 0
         done == IF storeOk THEN Len(writes) ELSE failAt - 1
         c == commitSitemapResult("save", i, csSettings, csCounters, csDisk,
                                  TRUE, storeOk)
     IN /\ failAt <= Len(writes)
        /\ csMissing' = recordMissingEliData(csMissing, map)
        /\ csFiles' = storeWrites(csFiles, csEcli, SubSeq(writes, 1, done))
        /\ csSettings' = c.settings
        /\ csDisk' = c.disk
        /\ csCounters' = c.counters
        /\ csLast' = [n |-> csLast.n + 1, item |-> i,
                      kind |-> IF storeOk THEN "ok" ELSE "failed",
                      done |-> done, again |-> i \in csWritten]
        /\ csWritten' = IF storeOk THEN csWritten \cup {i} ELSE csWritten
  /\ csTried' = csTried \cup {i}
  /\ UNCHANGED csPlan
  /\ UNCHANGED restOfCs

\* The process is killed in the commit of sitemap i, after the last write
\* of storeJudgementData (processor.js:218) and before markDone
\* (processor.js:226); the next run starts from settings.json.
CsKilled(i) ==
  /\ csLast.n < MaxCommits
  /\ i \notin csTried
  /\ ~sitemapAlreadyProcessed(csSettings, i)
  /\ LET map == csPlan.maps[i]
         writes == writesOf(map)
     IN /\ csMissing' = recordMissingEliData(csMissing, map)
        /\ csFiles' = storeWrites(csFiles, csEcli, writes)
        /\ csLast' = [n |-> csLast.n + 1, item |-> i, kind |-> "killed",
                      done |-> Len(writes), again |-> i \in csWritten]
  /\ csWritten' = csWritten \cup {i}
  /\ csSettings' = loadSettings(csDisk)
  /\ csCounters' = zeroCounters
  /\ csTried' = {}
  /\ UNCHANGED <<csDisk, csPlan>>
  /\ UNCHANGED restOfCs

\* index.js:155-160: the run has ended and `node index.js` is started again.
CsNextRun ==
  /\ csTried # {}
  /\ csLast.n < MaxCommits
  /\ csSettings' = loadSettings(csDisk)
  /\ csCounters' = zeroCounters
  /\ csTried' = {}
  /\ UNCHANGED <<csFiles, csMissing, csDisk, csPlan, csWritten, csLast>>
  /\ UNCHANGED restOfCs

\* -------------------------------------------------------- specifications
Init ==
  /\ CrawlInit
  /\ QueueInit
  /\ files = emptyFiles /\ merged = noMerges
  /\ XmlInit
  /\ FetchInit
  /\ RetryInit
  /\ NormIdle
  /\ ArtIdle /\ TgtIdle /\ CmIdle /\ SemIdle /\ CsIdle

Next ==
  \/ StartRun
  \/ RobotsFail
  \/ RobotsOk
  \/ ListingFail
  \/ ListingOk
  \/ StartFetch
  \/ AcquireResume
  \/ \E i \in Items : \E r \in resultsOf(i) : FetchDone(i, r)
  \/ \E storeOk \in BOOLEAN : Commit(storeOk)
  \/ SettleTail
  \/ TaskEnd
  \/ BatchEnd
  \/ Interrupt

Spec == Init /\ [][Next]_vars

\* The crawl with writes that may throw outside a try block.
NextCrash ==
  \/ StartRun
  \/ RobotsFail
  \/ RobotsOk
  \/ ListingFail
  \/ ListingOk
  \/ StartFetch
  \/ AcquireResume
  \/ \E i \in Items : \E r \in resultsOf(i) : FetchDone(i, r)
  \/ \E storeOk \in BOOLEAN : Commit(storeOk)
  \/ \E file \in {"missing_eli.json", "settings.json"} : CommitThrows(file)
  \/ SettleTail
  \/ TaskEnd
  \/ Reject
  \/ UnexpectedExit
  \/ BatchEnd
  \/ PromoteThrows
  \/ Interrupt

SpecCrash == Init /\ [][NextCrash]_vars

NextQueue ==
  \/ \E k \in Tasks : QEnqueue(k)
  \/ \E beh \in {"returns", "throws", "async"} : QCall(beh)
  \/ \E k \in Tasks, ok \in BOOLEAN : QSettle(k, ok)
  \/ QSettleTail

SpecQueue == Init /\ [][NextQueue]_vars

NextMerge == \E ecli \in Eclis, m \in BasesMaps : Store(ecli, m)

InitMerge ==
  CrawlInit /\ QueueInit /\ MergeInit /\ XmlInit /\ FetchInit /\ RetryInit /\ NormIdle
  /\ ArtIdle /\ TgtIdle /\ CmIdle /\ SemIdle /\ CsIdle
SpecMerge == InitMerge /\ [][NextMerge]_vars

NextXml ==
  \/ \E ref \in XmlRefs : XmlRef(ref)
  \/ XmlEnd

SpecXml == Init /\ [][NextXml]_vars

NextFetch ==
  \/ \E doc \in Docs : FetchXml(doc)
  \/ \E p \in Pages : FetchHtml(p)
  \/ CommitResult
  \/ \E key \in FetchKeys, eli \in UserElis : FillEli(key, eli)
  \/ ProcessMissingEliFile

SpecFetch == Init /\ [][NextFetch]_vars

NextRetry ==
  \/ \E r \in 1..MaxRetries : FetchWithRetry(r)
  \/ \E body \in Bodies : AttemptOk(body)
  \/ \E kind \in Failures : AttemptFails(kind)
  \/ SleepOver

\* Every attempt ends (the timer of processor.js:507 aborts the request at
\* the latest, and the transport ends the reading of a body) and every
\* sleep is over after its delay.
SpecRetry == Init /\ [][NextRetry]_vars /\ WF_vars(NextRetry)

NextNorm ==
  \/ ApplyEli
  \/ ApplyCgi

InitNorm ==
  /\ CrawlInit /\ QueueInit
  /\ files = emptyFiles /\ merged = noMerges
  /\ XmlInit /\ FetchInit /\ RetryInit
  /\ NormInit
  /\ ArtIdle /\ TgtIdle /\ CmIdle /\ SemIdle /\ CsIdle
SpecNorm == InitNorm /\ [][NextNorm]_vars

NextArt ==
  \/ NormalizeChunk
  \/ ParseArticles

InitArt ==
  /\ CrawlInit /\ QueueInit
  /\ files = emptyFiles /\ merged = noMerges
  /\ XmlInit /\ FetchInit /\ RetryInit
  /\ NormIdle
  /\ ArtInit /\ TgtIdle /\ CmIdle /\ SemIdle /\ CsIdle
SpecArt == InitArt /\ [][NextArt]_vars

NextTgt ==
  \/ \E i \in Items : TargetedUrl(i)
  \/ \E b \in Batches : TargetedIndex(b)
  \/ TargetListingOk
  \/ TargetListingFail
  \/ FixErrors
  \/ \E r \in {"error", "save", "skip", "empty", "no-bases"},
        reRecorded \in BOOLEAN, storeOk \in BOOLEAN :
       ProcessSingleSitemapUrl(r, reRecorded, storeOk)

InitTgt ==
  /\ CrawlInit /\ QueueInit
  /\ files = emptyFiles /\ merged = noMerges
  /\ XmlInit /\ FetchInit /\ RetryInit
  /\ NormIdle /\ ArtIdle
  /\ TgtInit /\ CmIdle /\ SemIdle /\ CsIdle
SpecTgt == InitTgt /\ [][NextTgt]_vars

NextCm ==
  \/ \E i \in Items, r \in {"error", "save", "skip", "empty", "no-bases"} :
       CmBegin(i, r)
  \/ CmBranch
  \/ CmStore
  \/ CmStored
  \/ CmStoreThrows
  \/ CmPush
  \/ CmSave
  \/ CmReturn
  \/ CmPromote
  \/ CmSaveIndex

InitCm ==
  /\ CrawlInit /\ QueueInit
  /\ files = emptyFiles /\ merged = noMerges
  /\ XmlInit /\ FetchInit /\ RetryInit
  /\ NormIdle /\ ArtIdle /\ TgtIdle
  /\ CmInit /\ SemIdle /\ CsIdle
SpecCm == InitCm /\ [][NextCm]_vars

NextSem ==
  \/ \E q \in SeqsUpTo(Clients, MaxClients) : SemEvent(q)
  \/ SemAcquire
  \/ SemRelease
  \/ SemResume
  \/ SemGot

InitSem ==
  /\ CrawlInit /\ QueueInit
  /\ files = emptyFiles /\ merged = noMerges
  /\ XmlInit /\ FetchInit /\ RetryInit
  /\ NormIdle /\ ArtIdle /\ TgtIdle /\ CmIdle
  /\ SemInit /\ CsIdle
SpecSem == InitSem /\ [][NextSem]_vars

NextCs ==
  \/ \E i \in CsItems :
       \E failAt \in 0..Len(writesOf(csPlan.maps[i])) : CsCommit(i, failAt)
  \/ \E i \in CsItems : CsKilled(i)
  \/ CsNextRun

InitCs ==
  /\ CrawlInit /\ QueueInit
  /\ files = emptyFiles /\ merged = noMerges
  /\ XmlInit /\ FetchInit /\ RetryInit
  /\ NormIdle /\ ArtIdle /\ TgtIdle /\ CmIdle /\ SemIdle
  /\ CsInit
SpecCs == InitCs /\ [][NextCs]_vars

\* ------------------------------------------------------------ properties
RunAlive == mainPc \in {"robots", "listing", "awaitAll", "done"}
Fetching == {i \in Items : taskPc[i] = "fetching"}
Committed == committedOk \cup committedFail
Ended(b) == batchEnd[b] \in {"partial", "promoted"}
\* sitemaps whose fetch has started and whose commit has not run yet
Uncommitted == {i \in Items : taskPc[i] \in {"fetching", "enqueued"}}

QRan(k) == qTask[k] \in {"running", "done", "failed"}
QFinished(k) == qTask[k] \in {"done", "failed"}

\* C1: tasks run through the SerialQueue execute one at a time and in the
\* order of their enqueue calls: a task that has started is preceded, in
\* enqueue order, only by tasks that have finished.
C1_SerialInOrder ==
  \A n \in 1..Len(qEnqueued) :
    QRan(qEnqueued[n]) => \A m \in 1..(n - 1) : QFinished(qEnqueued[m])

\* Every task was enqueued, the last one while an earlier one was pending,
\* and it is running now.
C1_Witness ==
  /\ Len(qEnqueued) = MaxTasks
  /\ qEnqueued[MaxTasks] \in qWaited
  /\ qTask[qEnqueued[MaxTasks]] = "running"

\* C2: at every moment at most SITEMAP_CONCURRENCY sitemaps are inside
\* fetchSitemapResult (started and not yet finished).
C2_FetchesBounded == Cardinality(Fetching) <= SITEMAP_CONCURRENCY

\* The limiter is full and holds a sitemap that had to wait for its slot.
C2_Witness ==
  /\ Cardinality(Fetching) = SITEMAP_CONCURRENCY
  /\ sitemapUrlsOf(1)[SITEMAP_CONCURRENCY + 1] \in Fetching

\* C3: an index is added to processedSitemapIndexes by this run (in memory
\* and in settings.json) if and only if its listing succeeded, its
\* processing ended and no commit of one of its sitemaps returned false.
C3_PromotedIffAllOk ==
  RunAlive =>
    \A b \in Batches :
      LET allOk == Ended(b) /\ committedFail \cap ItemsOf(b) = {}
      IN /\ (b \in settings.processedSitemapIndexes \ startIndexes) <=> allOk
         /\ (b \in disk.processedSitemapIndexes \ startIndexes) <=> allOk

\* One index ended with a failed sitemap and was not promoted, the next one
\* was promoted in the same run.
C3_Witness ==
  /\ mainPc = "done"
  /\ batchEnd[1] = "partial"
  /\ committedOk \cap ItemsOf(1) # {}
  /\ batchEnd[2] = "promoted"
  /\ 2 \in disk.processedSitemapIndexes

\* C4: no sitemap of a promoted index is in processedSitemaps, in
\* settings.json at any time and in the settings object of a running process.
C4_PromotedPruned ==
  /\ \A b \in disk.processedSitemapIndexes :
       ItemsOf(b) \cap disk.processedSitemaps = {}
  /\ RunAlive =>
       \A b \in settings.processedSitemapIndexes :
         ItemsOf(b) \cap settings.processedSitemaps = {}

\* An index whose sitemaps were partly in processedSitemaps is promoted.
C4_Witness ==
  /\ batchEnd[1] = "promoted"
  /\ before.index = 1
  /\ before.disk.processedSitemaps \cap ItemsOf(1) # {}
  /\ 1 \in disk.processedSitemapIndexes

\* C5: after an index in which some sitemap failed, the index is not in
\* processedSitemapIndexes, every sitemap whose commit returned true is in
\* processedSitemaps and no failed one is; and when the processing of an
\* index ends, the sitemaps fetched for it are exactly those that were not
\* in processedSitemaps when it was scanned.
C5_RetryOnlyFailures ==
  RunAlive =>
    \A b \in Batches :
      /\ (Ended(b) /\ committedFail \cap ItemsOf(b) # {}) =>
           /\ b \notin settings.processedSitemapIndexes
           /\ b \notin disk.processedSitemapIndexes
           /\ committedOk \cap ItemsOf(b) \subseteq settings.processedSitemaps
           /\ committedOk \cap ItemsOf(b) \subseteq disk.processedSitemaps
           /\ committedFail \cap settings.processedSitemaps = {}
           /\ committedFail \cap disk.processedSitemaps = {}
      /\ (Ended(b) /\ after.index = b /\ before.index = b) =>
           started \cap ItemsOf(b) = ItemsOf(b) \ before.settings.processedSitemaps

\* A second run ends an index that an earlier run left partial: some of its
\* sitemaps were skipped by the scan, the others were fetched again.
C5_Witness ==
  /\ run = 2
  /\ Ended(1)
  /\ after.index = 1
  /\ scanSkipped \cap ItemsOf(1) # {}
  /\ started \cap ItemsOf(1) # {}
  /\ committedFail \cap ItemsOf(1) # {}

C7_NoRework ==
  RunAlive =>
    /\ listed \cap startIndexes = {}
    /\ \A i \in started \cup Committed : BatchOf(i) \notin startIndexes
    /\ scanSkipped \cap (started \cup Committed) = {}

\* A run that skips a promoted index and, in another index, skips the
\* processed sitemaps and fetches and commits the others.
C7_Witness ==
  /\ startIndexes # {}
  /\ scanSkipped # {}
  /\ committedOk # {}

\* C8: at every moment at most SITEMAP_CONCURRENCY sitemaps have started
\* fetching without their commit having run.
C8_WindowBounded == Cardinality(Uncommitted) <= SITEMAP_CONCURRENCY

\* A fetched sitemap still awaits its commit while the waiter it woke has
\* taken the freed slot and is about to fetch.
C8_Witness ==
  /\ Cardinality(Uncommitted) = SITEMAP_CONCURRENCY
  /\ \E i \in Items : taskPc[i] = "enqueued"
  /\ \E j \in Items : taskPc[j] = "acquired" /\ sem.count = SITEMAP_CONCURRENCY

\* C9: a task that throws or rejects does not block the queue: whenever
\* nothing is left to run, every enqueued task has run; and the promise
\* enqueue returned for a task is rejected exactly when that task failed,
\* with the task's own error.
C9_FailureDoesNotBlock ==
  /\ \A k \in Tasks :
       /\ qResult[k] = "rejected" <=> qTask[k] = "failed"
       /\ qTask[k] = "failed" => qErr[k] = k
  /\ (qMq = << >> /\ \A k \in Tasks : qTask[k] # "running") =>
       \A k \in Range(qEnqueued) : QFinished(k)
  /\ \A n \in 1..Len(qEnqueued) :
       (n > 1 /\ QRan(qEnqueued[n])) => QFinished(qEnqueued[n - 1])

\* A task failed, the task enqueued behind it while it was pending has run.
C9_Witness ==
  \E n \in 1..(Len(qEnqueued) - 1) :
    /\ qTask[qEnqueued[n]] = "failed"
    /\ qEnqueued[n + 1] \in qWaited
    /\ qTask[qEnqueued[n + 1]] = "done"

Values(x) == x.v
NoDuplicates(seq) == Cardinality(Range(seq)) = Len(seq)
NeverMerged(r) == \A l \in {"FR", "NL"}, x \in Strings : r[l][x] = 0

\* C10: the abstract array of every record of the data store holds exactly
\* the strings that were merged into that record, each of them once.
C10_DedupUnion ==
  \A fn \in Filenames, a \in Articles, j \in Eclis :
    LET r == files[fn][a][j]
        m == merged[fn][a][j]
    IN /\ ~NeverMerged(m) => r.present
       /\ NoDuplicates(Values(r.abstractFR))
       /\ NoDuplicates(Values(r.abstractNL))
       /\ Range(Values(r.abstractFR)) = {x \in Strings : m["FR"][x] > 0}
       /\ Range(Values(r.abstractNL)) = {x \in Strings : m["NL"][x] > 0}

\* Two different strings were merged into one record, one of them twice.
C10_Witness ==
  \E fn \in Filenames, a \in Articles, j \in Eclis :
    /\ files[fn][a][j].abstractFR = Arr(<<"a", "b">>)
    /\ merged[fn][a][j]["FR"]["a"] = 2
    /\ merged[fn][a][j]["FR"]["b"] = 1

\* The article lines read so far, as positions in refs.
isArticleLine(ref) ==
  /\ ref.type = "OTHER"
  /\ ~ref.text.role
  /\ ~isUrl(ref.text.id)
  /\ ~RE_LEGAL_PRINCIPLE(ref.text)
  /\ RE_ART_REF_NO_DATE(ref.text)
ArticleLines == {n \in 1..Len(refs) : isArticleLine(refs[n])}
\* The identifiers bound to law key k: a base of that key has an
\* identifier only from an identifier entry or from the cache.
BoundTo(k) ==
  {legalBases[n].eli : n \in {m \in 1..Len(legalBases) :
                                extractLegalBasisKey(legalBases[m].rawText) = k}}
ResolvesTo(line, eli) ==
  \E n \in 1..Len(legalBases) : legalBases[n].line = line /\ legalBases[n].eli = eli

\* C11, as claimed: when the list is read, any two article lines of one law
\* key to which one identifier was bound both resolve to that identifier.
C11_GroupingAnywhere ==
  xmlPc = "done" =>
    \A n \in ArticleLines, m \in ArticleLines :
      LET k == extractLegalBasisKey(refs[n].text)
      IN (extractLegalBasisKey(refs[m].text) = k /\ Cardinality(BoundTo(k)) = 1) =>
           \A e \in BoundTo(k) : ResolvesTo(n, e) /\ ResolvesTo(m, e)

\* The bases of the judgement page as fetchSitemapResult reads them, and
\* whether the page gives an identifier for the article of basis b.
HtmlBases ==
  IF judgementPage.status = "ok"
    THEN flatBases(parseJudgementHtml(judgementPage.fieldsets).fiches)
    ELSE << >>
GotEliFromHtml(b) == htmlMatch(HtmlBases, b) # 0
CommitsSave == fetchPc = "result" /\ resultType = "save" /\ fetchPc' = "committed"

\* C12, as claimed: the commit of a judgement appends to missing_eli.json,
\* under its raw law key, every basis that parseSitemapXml left without an
\* identifier and for whose article the judgement page gave none, whatever
\* the number of abstracts and the outcome of the page download.
C12_UnresolvedRecorded ==
  [][CommitsSave =>
       \A n \in 1..Len(judgement.legalBasesWithoutEli) :
         LET b == judgement.legalBasesWithoutEli[n]
             item == missingEliJson'[b.rawLegalBasisText]
         IN ~GotEliFromHtml(b) =>
              /\ item.present
              /\ \E m \in 1..Len(item.elements) :
                   item.elements[m].article = b.article]_vars

\* A reference entry that is a citation line and matches none of the
\* patterns of sitemap.js:187-290.
Unrecognized(ref) ==
  /\ ref.type = "OTHER"
  /\ ~ref.text.role
  /\ ~isUrl(ref.text.id)
  /\ ~RE_LEGAL_PRINCIPLE(ref.text)
  /\ ~RE_ART_REF_WITH_COUNTER(ref.text)
  /\ ~RE_ART_REF_NO_COUNTER(ref.text)
  /\ ~RE_ART_REF_NO_DATE(ref.text)
  /\ ~RE_REF_NO_ART(ref.text)

\* C13, as claimed: when parseSitemapXml has read the document, the text of
\* every citation line that matched no pattern is in errors.json under the
\* URL of the document, and the lines behind it were read.
C13_UnmatchedLogged ==
  xmlPc = "done" =>
    \A n \in 1..Len(refs) : Unrecognized(refs[n]) => refs[n].text \in errorsJson

\* An identifier is canonical: no path segment is a Dutch document type of
\* ELI_TYPE_NL_TO_FR and none is cgi_wet.
Canonical(eli) ==
  /\ eli # NoId
  /\ \A n \in 1..Len(eli.path) :
       eli.path[n] \notin DOMAIN ELI_TYPE_NL_TO_FR /\ eli.path[n] # "cgi_wet"

ArticlesOfLine(n) ==
  {legalBases[k].article : k \in {i \in 1..Len(legalBases) : legalBases[i].line = n}}
  \cup {legalBasesWithoutEli[k].article :
          k \in {i \in 1..Len(legalBasesWithoutEli) : legalBasesWithoutEli[i].line = n}}
isCitationLine(ref) == ref.type = "OTHER" /\ ~ref.text.role /\ ~isUrl(ref.text.id)

\* The articles of a citation line classified by the first matching
\* pattern in the order (1) (2) (3), (4), (5).
ByPriority(text) ==
  IF \/ RE_ART_REF_WITH_COUNTER(text)
     \/ RE_ART_REF_NO_COUNTER(text)
     \/ RE_ART_REF_NO_DATE(text)
    THEN Range(parseArticleNumbers(text))
  ELSE IF RE_REF_NO_ART(text) THEN {"general"}
  ELSE IF RE_LEGAL_PRINCIPLE(text) THEN {""}
  ELSE {}

\* C15, as claimed: parseSitemapXml records for every citation line the
\* articles of its first matching pattern in the order (1) to (5): a line
\* with an article reference or a date is not recorded as a principle.
C15_FirstMatchWins ==
  xmlPc = "done" =>
    \A n \in 1..Len(refs) :
      isCitationLine(refs[n]) => ArticlesOfLine(n) = ByPriority(refs[n].text)

\* The result was built with the judgement page read to resolve
\* identifiers (at most one abstract).
ResolvedWithPage ==
  /\ fetchPc = "result"
  /\ resultType = "save"
  /\ totalAbstracts(judgement) <= 1
  /\ judgementPage.status = "ok"
HtmlGives(article, eli) ==
  \E n \in 1..Len(HtmlBases) :
    HtmlBases[n].article = article /\ HtmlBases[n].eli = eli /\ eli # NoId

fichesWithData == withData(parseJudgementHtml(judgementPage.fieldsets).fiches)
Correlated ==
  /\ fetchPc = "result"
  /\ resultType = "save"
  /\ totalAbstracts(judgement) > 1
  /\ judgementPage.status = "ok"
  /\ fichesWithData # << >>
\* The index an entry of the result has claimed, 0 when it has none.
claimedIdx(e) ==
  IF e.abstractFR # NoAbstract
  THEN CHOOSE i \in 1..Len(judgement.abstractsFR) : judgement.abstractsFR[i] = e.abstractFR
  ELSE IF e.abstractNL # NoAbstract
  THEN CHOOSE i \in 1..Len(judgement.abstractsNL) : judgement.abstractsNL[i] = e.abstractNL
  ELSE 0
\* The score of a fiche at an index: the higher of its two languages.
scoreAt(fiche, i) ==
  LET fr == IF i <= Len(judgement.abstractsFR)
            THEN textSimilarity(fiche.abstract, judgement.abstractsFR[i]) ELSE <<0, 1>>
      nl == IF i <= Len(judgement.abstractsNL)
            THEN textSimilarity(fiche.abstract, judgement.abstractsNL[i]) ELSE <<0, 1>>
  IN IF greater(nl, fr) THEN nl ELSE fr
claimedBefore(k) == {claimedIdx(payload[n]) : n \in 1..(k - 1)} \ {0}

RetrySafe ==
  /\ Len(attempts) <= retries
  /\ \A n \in 1..(Len(attempts) - 1) : attempts[n].kind \in Failures
  /\ \A n \in 1..Len(waits) : waits[n] = [after |-> n, ms |-> RETRY_DELAY_MS]
  /\ retryPc = "fetch" => Len(waits) = Len(attempts) /\ Len(attempts) < retries
  /\ retryPc \in {"sleep", "returned", "thrown"} => Len(waits) = Len(attempts) - 1
  /\ retryPc = "returned" =>
       /\ attempts # << >>
       /\ attempts[Len(attempts)].kind = "ok"
       /\ settled = attempts[Len(attempts)]
  /\ retryPc = "thrown" =>
       /\ Len(attempts) = retries
       /\ attempts[retries].kind \in Failures
       /\ settled = attempts[retries]
RetrySettled == retryPc \in {"returned", "thrown"}

CanonicalCgiLoi(x) ==
  /\ isUrl(x)
  /\ x.serialized
  /\ pathIncludes(x, "cgi_loi")
  /\ ~pathIncludes(x, "cgi_wet")

\* C20: applying normalizeEliToFrench twice gives what applying it once
\* gives; so does normalizeCgiUrl on every URL it recognizes; and
\* normalizeCgiUrl returns a URL in the canonical cgi_loi form as it is.
C20_Idempotent ==
  /\ (normFn = "eli" /\ Len(normOut) = 2) => normOut[2] = normOut[1]
  /\ (normFn = "cgi" /\ Len(normOut) = 2 /\ normOut[1] # NoId) => normOut[2] = normOut[1]
  /\ (normFn = "cgi" /\ Len(normOut) >= 1 /\ CanonicalCgiLoi(normX)) => normOut[1] = normX

\* C18: the process exits with a failure only when the enumeration of the
\* sitemap indexes failed at the start of the run: in a run that ended so,
\* no listing was requested (and so no sitemap was fetched or committed).
C18_OnlyEnumerationFatal == mainPc = "fatal" => listed = {}

\* The loop reads an identifier entry: an entry of type ELI, or a bare URL.
isIdentifierEntry(ref) ==
  \/ ref.type = "ELI"
  \/ ref.type = "OTHER" /\ ~ref.text.role /\ isUrl(ref.text.id)
ReadsEntry == xmlPc = "loop" /\ Len(refs') = Len(refs) + 1
ReadsIdentifier == ReadsEntry /\ isIdentifierEntry(refs'[Len(refs')])

\* C27: an identifier entry read while a group is pending under law key K
\* gives its identifier to every pending article, appends them to the
\* resolved list, empties the group and sets the cache of K to the
\* identifier; read while no group is pending it changes neither list nor
\* the cache.
C27_IdentifierBinds ==
  [][ReadsIdentifier =>
       LET eli == refs'[Len(refs')].text.id
       IN IF currentArticles # << >>
            THEN /\ Len(legalBases') = Len(legalBases) + Len(currentArticles)
                 /\ SubSeq(legalBases', 1, Len(legalBases)) = legalBases
                 /\ \A n \in 1..Len(currentArticles) :
                      legalBases'[Len(legalBases) + n] =
                        [currentArticles[n] EXCEPT !.eli = eli]
                 /\ currentArticles' = << >>
                 /\ currentLawKey' = NoKey
                 /\ lawKeyEliCache' = [lawKeyEliCache EXCEPT ![currentLawKey] = eli]
                 /\ legalBasesWithoutEli' = legalBasesWithoutEli
            ELSE /\ legalBases' = legalBases
                 /\ legalBasesWithoutEli' = legalBasesWithoutEli
                 /\ lawKeyEliCache' = lawKeyEliCache]_vars

\* An identifier entry was read after two article lines of one law, and
\* another one while nothing was pending.
C27_Witness ==
  /\ Len(refs) = 4
  /\ isArticleLine(refs[1]) /\ isArticleLine(refs[2])
  /\ isIdentifierEntry(refs[3]) /\ isIdentifierEntry(refs[4])
  /\ refs[3].type = "ELI" /\ refs[4].type = "OTHER"
  /\ Len(legalBases) = 2
  /\ legalBases[1].eli = refs[3].text.id /\ legalBases[2].eli = refs[3].text.id
  /\ lawKeyEliCache[extractLegalBasisKey(refs[1].text)] = refs[3].text.id
  /\ currentArticles = << >>

\* The loop reads a citation with articles or without (patterns 1 to 4),
\* of the law key keyOfEntry.
isGroupEntry(ref) ==
  /\ ref.type = "OTHER"
  /\ ~ref.text.role
  /\ ~isUrl(ref.text.id)
  /\ ~RE_LEGAL_PRINCIPLE(ref.text)
  /\ (RE_ART_REF_NO_DATE(ref.text) \/ RE_ART_REF_NO_COUNTER(ref.text)
        \/ RE_REF_NO_ART(ref.text))
ReadsGroupEntry == ReadsEntry /\ isGroupEntry(refs'[Len(refs')])
EndsInput == xmlPc = "loop" /\ xmlPc' = "done"
\* The pending group goes to the resolved list with the cached identifier
\* of its law key, or to the unresolved list under its law key.
FlushedByCache(lb, lbw) ==
  LET cached == lawKeyEliCache[currentLawKey]
  IN IF cached # NoId
       THEN /\ lb = legalBases \o [n \in 1..Len(currentArticles) |->
                                     [currentArticles[n] EXCEPT !.eli = cached]]
            /\ lbw = legalBasesWithoutEli
       ELSE /\ lb = legalBases
            /\ lbw = legalBasesWithoutEli \o
                       [n \in 1..Len(currentArticles) |->
                          [article |-> currentArticles[n].article,
                           rawLegalBasisText |-> currentLawKey,
                           line |-> currentArticles[n].line]]

\* C28: a pending group under law key K is flushed by a citation of
\* another law key and by the end of the list: its articles all go to the
\* resolved list with the cached identifier of K when there is one, and
\* all to the unresolved list under K otherwise; a citation of law key K
\* joins the group and nothing is flushed.
C28_FlushByCache ==
  [][/\ (ReadsGroupEntry /\ currentArticles # << >>) =>
          LET key == extractLegalBasisKey(refs'[Len(refs')].text)
          IN IF key # currentLawKey
               THEN /\ FlushedByCache(legalBases', legalBasesWithoutEli')
                    /\ currentLawKey' = key
                    /\ \A n \in 1..Len(currentArticles') :
                         currentArticles'[n].line = Len(refs')
               ELSE /\ legalBases' = legalBases
                    /\ legalBasesWithoutEli' = legalBasesWithoutEli
                    /\ currentLawKey' = key
                    /\ Len(currentArticles') > Len(currentArticles)
                    /\ SubSeq(currentArticles', 1, Len(currentArticles)) = currentArticles
     /\ (EndsInput /\ currentArticles # << >>) =>
          FlushedByCache(legalBases', legalBasesWithoutEli')]_vars

\* A repeat of a law whose identifier is cached was flushed by a citation
\* of another law, and that one by the end of the list.
C28_Witness ==
  /\ xmlPc = "done"
  /\ Len(refs) = 4
  /\ isArticleLine(refs[1]) /\ refs[2].type = "ELI"
  /\ isArticleLine(refs[3]) /\ isGroupEntry(refs[4])
  /\ extractLegalBasisKey(refs[3].text) = extractLegalBasisKey(refs[1].text)
  /\ extractLegalBasisKey(refs[4].text) # extractLegalBasisKey(refs[1].text)
  /\ Len(legalBases) = 2
  /\ legalBases[2].line = 3 /\ legalBases[2].eli = refs[2].text.id
  /\ Len(legalBasesWithoutEli) = 1
  /\ legalBasesWithoutEli[1].line = 4

\* The loop reads a principle.
isPrincipleEntry(ref) ==
  /\ ref.type = "OTHER"
  /\ ~ref.text.role
  /\ ~isUrl(ref.text.id)
  /\ RE_LEGAL_PRINCIPLE(ref.text)
ReadsPrinciple == ReadsEntry /\ isPrincipleEntry(refs'[Len(refs')])

\* C29: a principle read while a group is pending under a law key whose
\* identifier is cached resolves the pending articles to the cached
\* identifier, moves none of them to the unresolved list, and is itself
\* recorded as one unresolved basis without article under its own text.
C29_PrincipleFlushByCache ==
  [][(/\ ReadsPrinciple
      /\ currentArticles # << >>
      /\ lawKeyEliCache[currentLawKey] # NoId) =>
       /\ legalBases' = legalBases \o
            [n \in 1..Len(currentArticles) |->
               [currentArticles[n] EXCEPT !.eli = lawKeyEliCache[currentLawKey]]]
       /\ legalBasesWithoutEli' =
            Append(legalBasesWithoutEli,
                   [article |-> "", rawLegalBasisText |-> refs'[Len(refs')].text,
                    line |-> Len(refs')])]_vars

\* The identifier with a Dutch document type or the cgi_wet form turned
\* into its French form.
frenchForm(eli) ==
  IF includesEli(eli) THEN normalizeEliToFrench(eli) ELSE normalizeCgiUrl(eli)

\* C30: the bases parseSitemapXml returns hold no two entries of one
\* article whose identifiers are the same in their French form.
C30_ResolvedUnique ==
  xmlPc = "done" =>
    \A n \in 1..Len(uniqueBases), m \in 1..Len(uniqueBases) :
      (/\ n # m
       /\ uniqueBases[n].article = uniqueBases[m].article) =>
         frenchForm(uniqueBases[n].eli) # frenchForm(uniqueBases[m].eli)

\* One article was bound to the Dutch and to the French form of one
\* identifier and is returned once.
C30_Witness ==
  /\ xmlPc = "done"
  /\ Len(legalBases) = 2
  /\ legalBases[1].article = legalBases[2].article
  /\ legalBases[1].eli # legalBases[2].eli
  /\ frenchForm(legalBases[1].eli) = frenchForm(legalBases[2].eli)
  /\ Len(uniqueBases) = 1

\* The laws of ArtLaws that are international instruments.
IntlLaws == {<<"Protocole">>, <<"Convention">>}

\* A chunk that is a dotted-decimal token N.M, N.M.P, ...: digit groups
\* joined by single dots, with no further dot after the last group.
isDottedToken(c) ==
  c.lead = << >> /\ Len(c.groups) >= 2 /\ c.sep = "." /\ c.suffix # <<".">>

withoutLatin(t) ==
  IF t # << >> /\ t[Len(t)] \in Latin THEN SubSeq(t, 1, Len(t) - 1) ELSE t

\* Digit groups joined by separators of seps, at most `most` of them.
isGrouped(t, seps, most) ==
  /\ t # << >>
  /\ \A i \in 1..Len(t) : t[i] \in Digits \cup seps
  /\ t[1] \in Digits /\ t[Len(t)] \in Digits
  /\ \A i \in 1..(Len(t) - 1) : t[i] \in seps => t[i + 1] \in Digits
  /\ Cardinality({i \in 1..Len(t) : t[i] \in seps}) <= most

\* The recognized forms of an article token: letter-prefixed,
\* Roman-numeral-dot, dotted-decimal, and standard numeric with an optional
\* colon, slash or hyphen part; a Latin ordinal suffix where allowed.
isLetterPrefixed(t) ==
  /\ Len(t) >= 2 /\ t[1] \in Words
  /\ isGrouped(withoutLatin(Tail(t)), {"/", ".", "-"}, Len(t))
isRomanDot(t) ==
  /\ Len(t) >= 3 /\ t[1] \in RomanWords /\ t[2] = "."
  /\ isGrouped(withoutLatin(SubSeq(t, 3, Len(t))), {}, 0)
isDottedDecimal(t) == isGrouped(t, {"."}, Len(t)) /\ \E i \in 1..Len(t) : t[i] = "."
isStandard(t) == isGrouped(withoutLatin(t), {"-", ":", "/"}, 1)
isRecognizedForm(t) ==
  isLetterPrefixed(t) \/ isRomanDot(t) \/ isDottedDecimal(t) \/ isStandard(t)

\* C23, as claimed: for every citation line that matches pattern 1, 2 or 3,
\* the article list returned by parseArticleNumbers is non-empty and each
\* token has one of the recognized forms.
C23_NonEmptyRecognized ==
  artPc = "parsed" =>
    /\ artOut # << >>
    /\ \A i \in 1..Len(artOut) : isRecognizedForm(artOut[i])

\* A chunk that starts with an article number: digits, or a word and
\* digits, or a Roman numeral, a dot and digits, not run into a following
\* word; not a sub-paragraph qualifier, not a sub-item marker, not other
\* words.
startsWithArticle(c) ==
  /\ c.lead \in {<< >>, <<"L", " ">>, <<"XX", ".">>, <<"zesde", " ">>}
  /\ c.groups # << >>
  /\ ~(c.lead = << >> /\ Len(c.groups) = 1 /\ c.suffix = <<"°">>)
  /\ ~(c.lead # << >> /\ Len(c.groups) = 1 /\ c.suffix = <<"er">>)

\* What follows is split off as a chunk of its own, an article number.
followsWithArticle(f) == Len(f) >= 2 /\ f[Len(f) - 1] \in Digits

\* C23, amended: for every citation line that matches pattern 1, 2 or 3,
\* each token of the article list returned by parseArticleNumbers has one
\* of the recognized forms; the list is non-empty when a chunk of the
\* articles captured starts with an article number that ends at a word
\* boundary, and it is empty when the articles captured are one chunk that
\* is a sub-paragraph qualifier, a bare sub-item marker or text that does
\* not start with such a number.
C23_RecognizedOrNone ==
  artPc = "parsed" =>
    /\ \A i \in 1..Len(artOut) : isRecognizedForm(artOut[i])
    /\ startsWithArticle(artLine.chunk) \/ followsWithArticle(artLine.follower)
         => artOut # << >>
    /\ ~startsWithArticle(artLine.chunk) /\ artLine.follower = << >>
         => artOut = << >>

C23_Witness ==
  /\ artPc = "parsed"
  /\ artLine.chunk.lead = <<"§", " ">>
  /\ artLine.chunk.groups # << >>
  /\ artLine.follower = << >>
  /\ artOut = << >>


\* C21: a targeted run and a --fix-errors run never modify CrawlState:
\* processedSitemaps and processedSitemapIndexes, in memory and on disk,
\* are the same after the run as before it, whatever the outcome of each
\* processed item.
C21_TargetedRunsKeepCrawlState ==
  /\ tgtDisk = tgtStart
  /\ tgtPc \in {"listing", "loop", "fatal"} => tgtSettings = tgtStart
  /\ tgtPc = "done" /\ tgtUrls # << >> => tgtSettings = tgtStart

C21_Witness ==
  /\ tgtPc = "done"
  /\ tgtMode.kind = "fix"
  /\ tgtCounters.savedJudgements = 1
  /\ tgtStart.processedSitemaps # {}
  /\ tgtUrls # << >>
  /\ tgtSettings = tgtStart /\ tgtDisk = tgtStart


\* C24: after every commit task and after every batch promotion the
\* settings on disk equal the settings in memory, and every record merged
\* by a commit is in the data files before its sitemap is appended to
\* processedSitemaps.
C24_FlushedAfterCommit ==
  /\ cmPc \in {"next", "all", "promoted", "partial"} => cmDisk = cmSettings
  /\ \A i \in cmSettings.processedSitemaps : Range(recordsOf(i)) \subseteq cmFiles

C24_Witness ==
  /\ cmPc = "promoted"
  /\ cmDisk = cmSettings
  /\ cmDisk.processedSitemapIndexes = {1}
  /\ cmCounters.savedJudgements = 2
  /\ \A i \in ItemsOf(1) : Range(recordsOf(i)) \subseteq cmFiles


\* The sitemaps of the current index that the scan did not find in
\* processedSitemaps.
notAlreadyDone == ItemsOf(before.index) \ before.settings.processedSitemaps

\* C25: in a default crawl run every sitemap of an index that is not
\* already in processedSitemaps is fetched and then committed exactly once,
\* whatever the outcomes of the other sitemaps of the index, and the
\* promotion decision for the index is taken only after all of these
\* commits have finished.
C25_EachFetchedThenCommittedOnce ==
  [][/\ \A i \in Items :
          /\ taskPc'[i] = "fetching" /\ taskPc[i] # "fetching" =>
               i \in notAlreadyDone /\ i \notin started
          /\ taskPc'[i] = "committed" /\ taskPc[i] # "committed" =>
               /\ i \in started /\ result[i] # "none"
               /\ i \notin committedOk \cup committedFail
               /\ i \in committedOk' \cup committedFail'
     /\ \A b \in Batches :
          batchEnd'[b] # batchEnd[b] /\ batchEnd'[b] \in {"promoted", "partial"} =>
            /\ b = before.index
            /\ \A i \in notAlreadyDone :
                 /\ i \in started
                 /\ i \in committedOk \cup committedFail
                 /\ taskPc[i] = "finished"]_vars

C25_Witness ==
  /\ batchEnd[1] = "partial"
  /\ committedFail # {} /\ committedOk # {}
  /\ committedOk \cup committedFail = ItemsOf(1)
  /\ started = ItemsOf(1)


\* The clients that have returned from acquire and not yet released.
Holders == {i \in Clients : gPc[i] \in {"returned", "holding"}}

\* C26: for a Semaphore(max) driven by any number of tasks that call acquire
\* at arbitrary times and release once after each completed acquire, under
\* every interleaving of the continuations the number of tasks that have
\* returned from acquire and not yet released never exceeds max, and a
\* release resumes the task that has waited longest, if one waits.
C26_HoldersBounded ==
  /\ [](Cardinality(Holders) <= gSem.max)
  /\ [][\A i \in Clients :
          gPc'[i] = "woken" /\ gPc[i] # "woken" =>
            /\ gSem.queue # << >> /\ i = Head(gSem.queue)
            /\ gSem'.queue = Tail(gSem.queue)]_vars


\* The tokens of the articles captured, one per chunk that normalizes to a
\* token, in the order of the chunks.
tokensOf(line) ==
  LET pieces == splitArticles(normalizeWhitespace(rawArticles(line)))
  IN SelectSeq([i \in 1..Len(pieces) |->
                  normalizeArticleText(pieces[i], line.law \in IntlLaws)],
               notEmpty)
firstSeen(tokens, t) == CHOOSE i \in 1..Len(tokens) :
                          tokens[i] = t /\ \A j \in 1..(i - 1) : tokens[j] # t

\* C33: the list returned by parseArticleNumbers contains no token twice,
\* keeps the first-seen order of the tokens, and its purely numeric tokens
\* are in strictly increasing order: a purely numeric token smaller than
\* the largest purely numeric token already accepted is dropped, and
\* non-numeric tokens are never dropped by this filter.
C33_UniqueOrderedAscending ==
  artPc = "parsed" =>
    LET tokens == tokensOf(artLine)
        accepted(t) == \E i \in 1..Len(artOut) : artOut[i] = t
        largerBefore(t) ==
          \E j \in 1..(firstSeen(tokens, t) - 1) :
            /\ isPurelyNumeric(tokens[j]) /\ accepted(tokens[j])
            /\ parseInt(tokens[j]) > parseInt(t)
    IN /\ \A i, j \in 1..Len(artOut) : i # j => artOut[i] # artOut[j]
       /\ \A i \in 1..Len(artOut) : \E k \in 1..Len(tokens) : tokens[k] = artOut[i]
       /\ \A i, j \in 1..Len(artOut) :
            i < j => firstSeen(tokens, artOut[i]) < firstSeen(tokens, artOut[j])
       /\ \A i, j \in 1..Len(artOut) :
            i < j /\ isPurelyNumeric(artOut[i]) /\ isPurelyNumeric(artOut[j]) =>
              parseInt(artOut[i]) < parseInt(artOut[j])
       /\ \A k \in 1..Len(tokens) :
            accepted(tokens[k]) <=>
              ~(isPurelyNumeric(tokens[k]) /\ largerBefore(tokens[k]))

C33_Witness ==
  /\ artPc = "parsed"
  /\ tokensOf(artLine) = <<(<<"6">>), (<<"6", "6">>), (<<"1", "4">>)>>
  /\ artOut = <<(<<"6">>), (<<"6", "6">>)>>


\* The index an entry of the result holds in each language, 0 when none.
idxFR(e) ==
  IF e.abstractFR = NoAbstract THEN 0
  ELSE CHOOSE i \in 1..Len(judgement.abstractsFR) : judgement.abstractsFR[i] = e.abstractFR
idxNL(e) ==
  IF e.abstractNL = NoAbstract THEN 0
  ELSE CHOOSE i \in 1..Len(judgement.abstractsNL) : judgement.abstractsNL[i] = e.abstractNL
\* The indices marked used in each language once the first k fiches are done.
usedFRAfter(k) == {idxFR(payload[n]) : n \in 1..k} \ {0}
usedNLAfter(k) == {idxNL(payload[n]) : n \in 1..k} \ {0}
inBoth == (1..Len(judgement.abstractsFR)) \cap (1..Len(judgement.abstractsNL))

candidates(k) ==
  {<<1, i>> : i \in (1..Len(judgement.abstractsFR)) \ usedFRAfter(k - 1)}
    \cup {<<2, i>> : i \in (1..Len(judgement.abstractsNL)) \ usedNLAfter(k - 1)}
scoreOf(k, c) ==
  textSimilarity(fichesWithData[k].abstract,
                 IF c[1] = 1 THEN judgement.abstractsFR[c[2]]
                 ELSE judgement.abstractsNL[c[2]])
precedes(c, d) == c[1] < d[1] \/ (c[1] = d[1] /\ c[2] < d[2])
selected(k) ==
  {c \in candidates(k) :
     /\ greater(scoreOf(k, c), <<0, 1>>)
     /\ \A d \in candidates(k) :
          /\ ~greater(scoreOf(k, d), scoreOf(k, c))
          /\ precedes(d, c) => greater(scoreOf(k, c), scoreOf(k, d))}

extractedAt(n) ==
  LET ref == refs[n]
      text == ref.text
  IN IF ref.type # "OTHER" \/ text.role \/ isUrl(text.id) \/ RE_LEGAL_PRINCIPLE(text)
       THEN << >>
     ELSE IF \/ RE_ART_REF_WITH_COUNTER(text)
             \/ RE_ART_REF_NO_COUNTER(text)
             \/ RE_ART_REF_NO_DATE(text)
       THEN parseArticleNumbers(text)
     ELSE IF RE_REF_NO_ART(text) THEN <<"general">>
     ELSE << >>

\* C39: when parseSitemapXml ends, every article token extracted from an
\* article-bearing or no-article entry is in the unresolved list or, under
\* the canonical form of the identifier bound to it, in the resolved list;
\* none is in neither.
C39_EveryArticleAccounted ==
  xmlPc = "done" =>
    \A n \in 1..Len(refs) :
      \A t \in 1..Len(extractedAt(n)) :
        LET a == extractedAt(n)[t]
        IN \/ \E m \in 1..Len(legalBasesWithoutEli) :
                /\ legalBasesWithoutEli[m].article = a
                /\ legalBasesWithoutEli[m].line = n
           \/ \E m \in 1..Len(legalBases) :
                /\ legalBases[m].article = a
                /\ legalBases[m].line = n
                /\ \E u \in 1..Len(uniqueBases) :
                     /\ uniqueBases[u].article = a
                     /\ uniqueBases[u].eli = canonicalEli(legalBases[m].eli)

\* The sitemap whose commit runs in this step, as a set (empty when the step
\* is no commit), and the indexes whose listing fails in this step.
committing == {i \in Items : taskPc[i] # "committed" /\ taskPc'[i] = "committed"}
listingFailed == {b \in Batches : batchEnd[b] = "listfail"}
nowFailing == {b \in Batches : batchEnd[b] # "listfail" /\ batchEnd'[b] = "listfail"}
plus(n, cond) == IF cond THEN n + 1 ELSE n

\* C37: in a run, the error counter is the number of commits that returned
\* failure plus the number of indexes whose listing failed, and every
\* commit adds exactly one to savedJudgements when it stored a judgement,
\* exactly one to skippedCourt when it committed a skip, exactly one to the
\* error counter when it failed; no other step of the run changes a counter
\* but a failed listing (the counters die with a killed process), so no
\* increment is lost or counted twice.
C37_CountersExact ==
  /\ [](counters.errorCount = Cardinality(committedFail) + Cardinality(listingFailed))
  /\ [][(run' = run /\ mainPc' # "killed") =>
          /\ \A i \in committing :
               /\ counters'.savedJudgements =
                    plus(counters.savedJudgements, result[i] = "save" /\ i \in committedOk')
               /\ counters'.skippedCourt =
                    plus(counters.skippedCourt, result[i] = "skip" /\ i \in committedOk')
               /\ counters'.errorCount =
                    plus(counters.errorCount, i \in committedFail')
               /\ i \in committedOk' \/ i \in committedFail'
          /\ committing = {} =>
               /\ counters'.savedJudgements = counters.savedJudgements
               /\ counters'.skippedCourt = counters.skippedCourt
               /\ counters'.errorCount = counters.errorCount + Cardinality(nowFailing)
          /\ Cardinality(committing) <= 1]_vars

\* A run has ended in which the listing of one index failed, one commit
\* failed, one judgement was stored and one skip was committed.
C37_Witness ==
  /\ mainPc = "done"
  /\ Cardinality(listingFailed) = 1
  /\ Cardinality(committedFail) = 1
  /\ counters.errorCount = 2
  /\ counters.savedJudgements = 1
  /\ counters.skippedCourt = 1

\* C32: processMissingEliFile merges every element of an entry that has
\* elements and an identifier of a recognized form into the data store
\* under the normalized identifier and the article the element was queued
\* with ("general" included), and empties the element list of that entry;
\* every other entry keeps its elements.
C32_ReplayUnderQueuedArticle ==
  [][(/\ fetchPc = "committed" /\ fetchPc' = "committed"
      /\ \A k \in FetchKeys : missingEliJson'[k].eli = missingEliJson[k].eli) =>
       \A k \in FetchKeys :
         LET item == missingEliJson[k]
         IN IF /\ item.present /\ Len(item.elements) > 0
               /\ item.eli # NoId /\ normalizeLegalBasisEli(item.eli) # NoId
              THEN /\ \A n \in 1..Len(item.elements) :
                        Written(Base(item.elements[n].article,
                                     normalizeLegalBasisEli(item.eli)),
                                item.elements[n]) \in dataJson'
                   /\ missingEliJson'[k].elements = << >>
              ELSE missingEliJson'[k] = item]_vars

\* A step is a commit that returned failure: a write of storeJudgementData
\* threw.
failedCommit == csLast'.n = csLast.n + 1 /\ csLast'.kind = "failed"
\* The strings of an abstract field of a record, as a set.
asSet(x) == IF x.t = "arr" THEN Range(x.v) ELSE IF Truthy(x) THEN {x.v[1]} ELSE {}
Records == Filenames \X Articles
recordOf(f, r) == f[r[1]][r[2]][csEcli]
\* The store with every record of the result of sitemap i merged into f.
fullyStored(f, i) == storeWrites(f, csEcli, writesOf(csPlan.maps[i]))
\* Every unresolved basis of the result of sitemap i has its element in the
\* reconciliation store m.
queued(m, i) ==
  \A n \in 1..Len(csPlan.maps[i]) :
    \A k \in 1..Len(csPlan.maps[i][n].missingEliBases) :
      LET b == csPlan.maps[i][n].missingEliBases[k]
      IN /\ m[b.rawLegalBasisText].present
         /\ Element(b.article, csPlan.maps[i][n].abstractFR, csPlan.maps[i][n].abstractNL)
              \in Range(m[b.rawLegalBasisText].elements)

\* C34 as stated: a commit of a judgement that fails leaves the data store,
\* the reconciliation store and the settings as they were; only the error
\* counter changes.
C34_FailedCommitChangesNothing ==
  [][failedCommit =>
       /\ csFiles' = csFiles
       /\ csMissing' = csMissing
       /\ csSettings' = csSettings /\ csDisk' = csDisk
       /\ csCounters' = [csCounters EXCEPT !.errorCount = @ + 1]]_vars

\* C34 amended: a commit of a judgement that fails leaves the settings as
\* they were and changes no counter but the error counter, which it raises
\* by one; the reconciliation store has received the unresolved bases of
\* the judgement, as in a commit that succeeds, and the data store holds
\* the records written before the write that threw: every record lies
\* between what it was and what the full commit would have made of it.
C34_FailedCommitKeepsCrawlState ==
  [][failedCommit =>
       /\ csSettings' = csSettings /\ csDisk' = csDisk
       /\ csCounters' = [csCounters EXCEPT !.errorCount = @ + 1]
       /\ csMissing' = recordMissingEliData(csMissing, csPlan.maps[csLast'.item])
       /\ queued(csMissing', csLast'.item)
       /\ \A r \in Records :
            LET old == recordOf(csFiles, r)
                new == recordOf(csFiles', r)
                full == recordOf(fullyStored(csFiles, csLast'.item), r)
            IN /\ old.present => new.present
               /\ new.present => full.present
               /\ asSet(old.abstractFR) \subseteq asSet(new.abstractFR)
               /\ asSet(new.abstractFR) \subseteq asSet(full.abstractFR)
               /\ asSet(old.abstractNL) \subseteq asSet(new.abstractNL)
               /\ asSet(new.abstractNL) \subseteq asSet(full.abstractNL)]_vars

\* A commit has failed at its second write, of a judgement with unresolved
\* bases: the first record is in the data store, the bases are in the
\* reconciliation store, the sitemap is not marked.
C34_Witness ==
  /\ csLast.kind = "failed"
  /\ csLast.done = 1
  /\ csLast.n = 1
  /\ csFiles # csPlan.files0
  /\ csMissing # emptyReconciliation
  /\ csSettings = emptySettings
  /\ csCounters.errorCount = 1

\* C35: a commit of a judgement whose records were all written by an
\* earlier commit (a run was killed before the sitemap was marked) leaves
\* the data store and the reconciliation store as they are.
C35_RecommitChangesNothing ==
  [][(csLast'.n = csLast.n + 1 /\ csLast'.item \in csWritten) =>
       csFiles' = csFiles /\ csMissing' = csMissing]_vars

\* The last commit was the second commit of a judgement with records and
\* unresolved bases, and it succeeded.
C35_Witness ==
  /\ csLast.again
  /\ csLast.kind = "ok"
  /\ csLast.done >= 1
  /\ \E k \in CsKeys : csMissing[k].present
  /\ Len(csPlan.maps[csLast.item]) = 2

\* The run is over: every sitemap of the plan is marked as processed.
allCommitted == csSettings.processedSitemaps = CsItems
\* What the results of the plan hold for a record: the strings of each
\* language, and whether any basis names the record.
names(i, n, k, r) ==
  /\ k <= Len(csPlan.maps[i][n].legalBases)
  /\ csPlan.maps[i][n].legalBases[k].eli # NoEli
  /\ eliToFilename(csPlan.maps[i][n].legalBases[k].eli) = r[1]
  /\ csPlan.maps[i][n].legalBases[k].article = r[2]
named(r) ==
  {<<i, n>> \in CsItems \X (1..2) :
     n <= Len(csPlan.maps[i]) /\ \E k \in 1..2 : names(i, n, k, r)}
givenFR(r) == UNION {asSet(csPlan.maps[p[1]][p[2]].abstractFR) : p \in named(r)}
givenNL(r) == UNION {asSet(csPlan.maps[p[1]][p[2]].abstractNL) : p \in named(r)}

\* C36: once every judgement of the run is committed, each record of the
\* data store holds, as sets, the abstracts it held before the run and
\* those of every result that names it, whatever the order of the commits
\* (and whichever of them failed or were repeated on the way); and no
\* commit removes a string from a record.
C36_StoreIndependentOfOrder ==
  /\ [](allCommitted =>
          \A r \in Records :
            /\ recordOf(csFiles, r).present =
                 (recordOf(csPlan.files0, r).present \/ named(r) # {})
            /\ asSet(recordOf(csFiles, r).abstractFR) =
                 asSet(recordOf(csPlan.files0, r).abstractFR) \cup givenFR(r)
            /\ asSet(recordOf(csFiles, r).abstractNL) =
                 asSet(recordOf(csPlan.files0, r).abstractNL) \cup givenNL(r))
  /\ [][\A r \in Records :
          /\ asSet(recordOf(csFiles, r).abstractFR)
               \subseteq asSet(recordOf(csFiles', r).abstractFR)
          /\ asSet(recordOf(csFiles, r).abstractNL)
               \subseteq asSet(recordOf(csFiles', r).abstractNL)]_vars

\* Two judgements that name the same record with different abstracts are
\* committed, the second one first, on a record written before abstracts
\* were arrays.
C36_Witness ==
  /\ allCommitted
  /\ csLast.item = 1
  /\ csPlan.files0 = legacyFiles
  /\ \E r \in Records :
       /\ \E p, q \in named(r) :
            /\ p[1] # q[1]
            /\ csPlan.maps[p[1]][p[2]].abstractFR # csPlan.maps[q[1]][q[2]].abstractFR
       /\ Cardinality(asSet(recordOf(csFiles, r).abstractFR)) >= 2

====
